---- MODULE Spec2Model ----
(***************************************************************************)
(* MsGraph-Mcp: the handle-indexed result cache (ResultCache), the MCP     *)
(* resource handlers that resolve references against it, and the batch     *)
(* dispatcher (GraphClient.executeBatch / SearchByEntities.execute).       *)
(*                                                                         *)
(* Strings that the code formats or parses (handles, resource URIs) are    *)
(* sequences of one-character strings; '' is << >>.                        *)
(***************************************************************************)
EXTENDS Integers, Sequences, FiniteSets, TLC

(***************************************************************************)
(* Bounds of the model                                                     *)
(***************************************************************************)
TtlMs == 1          \* constructor argument ttlMs of the modelled cache
MaxTime == TtlMs + 1  \* Date.now() ranges over 0..MaxTime: an entry is seen
                      \* at every age up to ttlMs + 1
MaxEntries == 2     \* constructor argument maxEntries of the modelled cache
MaxExtra == 1       \* insLog follows a run of up to MaxEntries + MaxExtra puts
MaxEntities == 22   \* longest entity list given to SearchByEntities.execute

(***************************************************************************)
(* Strings                                                                 *)
(***************************************************************************)
DigitChars == <<"0", "1", "2", "3", "4", "5", "6", "7", "8", "9">>

IsDigit(c) == \E d \in 1..10 : DigitChars[d] = c

DigitVal(c) == (CHOOSE d \in 1..10 : DigitChars[d] = c) - 1

\* Number.prototype.toString for a non-negative integer
RECURSIVE NumToString(_)
NumToString(n) ==
    IF n < 10 THEN <<DigitChars[n + 1]>>
    ELSE NumToString(n \div 10) \o <<DigitChars[(n % 10) + 1]>>

\* parseInt(s, 10) for a non-empty string of decimal digits
RECURSIVE ParseInt(_)
ParseInt(s) ==
    IF Len(s) = 0 THEN 0
    ELSE 10 * ParseInt(SubSeq(s, 1, Len(s) - 1)) + DigitVal(s[Len(s)])

StartsWith(s, p) == Len(s) >= Len(p) /\ SubSeq(s, 1, Len(p)) = p

DropPrefix(s, p) == SubSeq(s, Len(p) + 1, Len(s))

(***************************************************************************)
(* JavaScript Map: a sequence of [k, v] pairs in insertion order           *)
(***************************************************************************)
MapKeys(m) == [i \in 1..Len(m) |-> m[i].k]

MapKeySet(m) == {m[i].k : i \in 1..Len(m)}

MapHas(m, key) == \E i \in 1..Len(m) : m[i].k = key

MapGet(m, key) == m[CHOOSE i \in 1..Len(m) : m[i].k = key].v

\* Map.prototype.set: an existing key keeps its position, a new key is appended
MapSet(m, key, val) ==
    IF MapHas(m, key)
    THEN [i \in 1..Len(m) |-> IF m[i].k = key THEN [k |-> key, v |-> val] ELSE m[i]]
    ELSE Append(m, [k |-> key, v |-> val])

MapDelete(m, key) == SelectSeq(m, LAMBDA e : e.k # key)

(***************************************************************************)
(* Upstream payloads                                                       *)
(***************************************************************************)
Hit1 == [webUrl |-> "https://sp/a.docx", resourceType |-> "listItem",
         sensitivityLabel |-> "General", resourceMetadata |-> "meta-a",
         extracts |-> <<[text |-> "a1", relevanceScore |-> 40],
                        [text |-> "a2", relevanceScore |-> 90]>>]

Hit2 == [webUrl |-> "https://sp/b.docx", resourceType |-> "listItem",
         sensitivityLabel |-> "Confidential", resourceMetadata |-> "meta-b",
         extracts |-> <<[text |-> "b1", relevanceScore |-> 70]>>]

Hit3 == [webUrl |-> "https://sp/c.docx", resourceType |-> "externalItem",
         sensitivityLabel |-> "None", resourceMetadata |-> "meta-c",
         extracts |-> << >>]

\* the random suffix of a search id
RandomSuffixes == {<<"x">>, <<"y">>}

\* the runs of SearchContent.execute: the random suffix drawn for the search
\* id and the response.retrievalHits returned by the Copilot retrieval API
SearchRuns ==
    {[suffix |-> <<"x">>, hits |-> <<Hit1, Hit2, Hit3>>],
     [suffix |-> <<"y">>, hits |-> <<Hit2>>]}

Attachment(attId, bytes) ==
    [id |-> attId, name |-> attId \o <<".", "p", "d", "f">>,
     contentType |-> "application/pdf", size |-> 3,
     contentBytes |-> bytes]

\* the runs of GetAttachments.execute: its input and the attachment list
\* returned by GraphClient.getAttachments; contentBytes "" is an attachment
\* that came without content
AttachmentRuns ==
    {[messageId |-> <<"m">>, includeContent |-> TRUE,
      attachments |-> <<Attachment(<<"a">>, "QUFB")>>],
     [messageId |-> <<"m">>, includeContent |-> TRUE,
      attachments |-> <<Attachment(<<"a">>, "Q0ND"), Attachment(<<"b">>, "QkJC")>>],
     [messageId |-> <<"n">>, includeContent |-> TRUE,
      attachments |-> <<Attachment(<<"a">>, "RERE")>>],
     [messageId |-> <<"n">>, includeContent |-> TRUE,
      attachments |-> <<Attachment(<<"b">>, "RUVF")>>],
     [messageId |-> <<"m">>, includeContent |-> TRUE,
      attachments |-> <<Attachment(<<"a">>, "")>>],
     [messageId |-> <<"m">>, includeContent |-> FALSE,
      attachments |-> <<Attachment(<<"a">>, "QUFB")>>]}

(***************************************************************************)
(* State                                                                   *)
(***************************************************************************)
VARIABLES
    ttlMs,            \* ResultCache.ttlMs
    maxEntries,       \* ResultCache.maxEntries
    now,              \* Date.now()
    searchCache,      \* ResultCache.searchCache
    attachmentCache,  \* ResultCache.attachmentCache
    last,             \* the last operation, its arguments and its outcome
    hist,             \* history: handle -> time of its last put; a handle
                      \* leaves when it is evicted or cleared, or removed
                      \* after its ttl has passed
    everRemoved,      \* history: watched handles whose entry has been removed
    insLog,           \* history: per cache, the handles put one after the
                      \* other into the empty cache, while none was re-put,
                      \* cleared or removed by expiry
    pc,               \* where SearchByEntities.execute stands
    entities,         \* input.entities
    batchRequests,    \* the requests built by execute
    chunkIdx,         \* executeBatch: the chunk being processed (from 1)
    attempt,          \* executeRequest: the loop variable
    allResponses,     \* executeBatch: allResponses
    emailSearchResult, \* the BatchEmailSearchResult returned by execute
    chunkLog,         \* history: how the upstream call of each chunk ended
    inFlight,         \* history: the POSTs of executeBatch awaiting an answer
    statusLog,        \* history: the statuses answered to the attempts of the
                      \* executeRequest call that is running or has ended last
    unswept,          \* attachmentCache of a second ResultCache that gets the
                      \* same calls and whose interval callback never runs
    pending,          \* per tool, the calls suspended at their upstream await
    cachedToken,      \* GraphAuthenticator.cachedToken: << >> when undefined
    isInitialized,    \* GraphAuthenticator.isInitialized
    tokenFile,        \* disk: the file at getTokenStoragePath(), << >> when absent
    msalCache,        \* disk: the file at getMsalCachePath(), << >> when absent
    sendPc,           \* where SendMessage.execute stands
    sendInput,        \* the input of the running SendMessage.execute
    draftMessage,     \* the draft returned by createDraftMessage, << >> if none
    graphCalls,       \* history: the calls SendMessage made to the GraphClient
    sendResult        \* what SendMessage.execute returned, << >> if nothing

cacheVars == <<now, searchCache, attachmentCache, last, hist, everRemoved, insLog>>

batchVars == <<pc, entities, batchRequests, chunkIdx, attempt, allResponses,
               emailSearchResult, chunkLog, inFlight, statusLog>>

configVars == <<ttlMs, maxEntries>>

twinVars == <<unswept>>

pendingVars == <<pending>>

authVars == <<cachedToken, isInitialized, tokenFile, msalCache>>

sendVars == <<sendPc, sendInput, draftMessage, graphCalls, sendResult>>

vars == <<ttlMs, maxEntries, unswept, pending, now, searchCache, attachmentCache, last, hist, everRemoved, insLog,
          pc, entities, batchRequests, chunkIdx, attempt, allResponses,
          emailSearchResult, chunkLog, inFlight, statusLog,
          cachedToken, isInitialized, tokenFile, msalCache,
          sendPc, sendInput, draftMessage, graphCalls, sendResult>>

(***************************************************************************)
(* ResultCache                                                             *)
(***************************************************************************)
generateSearchId(t, suffix) == NumToString(t) \o <<"-">> \o suffix

\* variant: the id also carries the time of the call
generateAttachmentId_PerCall(messageId, attachmentId) ==
    messageId \o <<":">> \o attachmentId \o <<"-">> \o NumToString(now)

generateAttachmentId(messageId, attachmentId) ==
    messageId \o <<":">> \o attachmentId

\* variant: an entry already expires at age ttlMs
Expired_AtTtl(t, entry) == t - entry.timestamp >= ttlMs

\* the expiry comparison of get and getAttachment
Expired(t, entry) == t - entry.timestamp > ttlMs

\* variant: the sweep already removes an entry at age ttlMs
SweepExpired_AtTtl(t, entry) == t - entry.timestamp >= ttlMs

\* the expiry comparison of the two loops of cleanupExpired
SweepExpired(t, entry) == t - entry.timestamp > ttlMs

\* the key found by the scan of evictOldestSearch / evictOldestAttachment:
\* the first entry in iteration order whose timestamp is strictly less than
\* every earlier one's
OldestKey(m) ==
    LET i == CHOOSE i \in 1..Len(m) :
                 /\ \A j \in 1..Len(m) : m[i].v.timestamp <= m[j].v.timestamp
                 /\ \A j \in 1..(i - 1) : m[j].v.timestamp > m[i].v.timestamp
    IN m[i].k

\* variant: the scan keeps the entry with the greatest timestamp
evictOldest_Newest(m) ==
    IF Len(m) = 0 THEN m
    ELSE LET i == CHOOSE i \in 1..Len(m) :
                      /\ \A j \in 1..Len(m) : m[i].v.timestamp >= m[j].v.timestamp
                      /\ \A j \in (i + 1)..Len(m) : m[j].v.timestamp < m[i].v.timestamp
         IN MapDelete(m, m[i].k)

\* oldestId stays null on an empty map, and `if (oldestId)` is also false
\* for the empty string
evictOldest(m) ==
    IF Len(m) = 0 THEN m
    ELSE IF OldestKey(m) # << >> THEN MapDelete(m, OldestKey(m)) ELSE m

evictOldestSearch(m) == evictOldest(m)

\* variant: the oldest key is looked up in the search map
evictOldestAttachment_SearchKeys(m) ==
    IF Len(searchCache) = 0 THEN m
    ELSE IF OldestKey(searchCache) # << >>
         THEN MapDelete(m, OldestKey(searchCache)) ELSE m

evictOldestAttachment(m) == evictOldest(m)

\* variant: a put that inserts without the capacity check
set_InsertOnly(m, t, searchId, query, results) ==
    MapSet(m, searchId,
           [searchId |-> searchId, query |-> query, timestamp |-> t,
            results |-> results])

\* set(searchId, query, results) at time t
set(m, t, searchId, query, results) ==
    LET m1 == IF Len(m) >= maxEntries THEN evictOldestSearch(m) ELSE m
    IN MapSet(m1, searchId,
              [searchId |-> searchId, query |-> query, timestamp |-> t,
               results |-> results])

\* variant: the entry is stored under the attachment id alone
setAttachment_WrongKey(m, t, messageId, attachmentId, attachment) ==
    LET m1 == IF Len(m) >= maxEntries THEN evictOldestAttachment(m) ELSE m
    IN MapSet(m1, attachmentId,
              [attachmentId |-> attachmentId, messageId |-> messageId,
               timestamp |-> t, attachment |-> attachment])

\* setAttachment(messageId, attachmentId, attachment) at time t: the new map
setAttachment(m, t, messageId, attachmentId, attachment) ==
    LET m1 == IF Len(m) >= maxEntries THEN evictOldestAttachment(m) ELSE m
        cacheId == generateAttachmentId(messageId, attachmentId)
    IN MapSet(m1, cacheId,
              [attachmentId |-> cacheId, messageId |-> messageId,
               timestamp |-> t, attachment |-> attachment])

\* variant: a hit refreshes the entry's timestamp (eviction by last access)
get_Touch(m, t, searchId) ==
    IF ~MapHas(m, searchId) THEN [hit |-> FALSE, map |-> m]
    ELSE IF Expired(t, MapGet(m, searchId))
         THEN [hit |-> FALSE, map |-> MapDelete(m, searchId)]
         ELSE [hit |-> TRUE, value |-> MapGet(m, searchId),
               map |-> MapSet(m, searchId,
                              [MapGet(m, searchId) EXCEPT !.timestamp = t])]

\* get(searchId) at time t: hit, value and the map afterwards
get(m, t, searchId) ==
    IF ~MapHas(m, searchId) THEN [hit |-> FALSE, map |-> m]
    ELSE IF Expired(t, MapGet(m, searchId))
         THEN [hit |-> FALSE, map |-> MapDelete(m, searchId)]
         ELSE [hit |-> TRUE, value |-> MapGet(m, searchId), map |-> m]

\* getAttachment(cacheId) at time t
getAttachment(m, t, cacheId) ==
    IF ~MapHas(m, cacheId) THEN [hit |-> FALSE, map |-> m]
    ELSE IF Expired(t, MapGet(m, cacheId))
         THEN [hit |-> FALSE, map |-> MapDelete(m, cacheId)]
         ELSE [hit |-> TRUE, value |-> MapGet(m, cacheId).attachment, map |-> m]

\* variant: the index is taken one-based
getResult_OneBased(m, t, searchId, resultIndex) ==
    LET cached == get(m, t, searchId)
    IN IF ~cached.hit THEN [hit |-> FALSE, map |-> cached.map]
       ELSE IF resultIndex < 1 \/ resultIndex > Len(cached.value.results)
            THEN [hit |-> FALSE, map |-> cached.map]
            ELSE [hit |-> TRUE, value |-> cached.value.results[resultIndex],
                  map |-> cached.map]

\* getResult(searchId, resultIndex) at time t
getResult(m, t, searchId, resultIndex) ==
    LET cached == get(m, t, searchId)
    IN IF ~cached.hit THEN [hit |-> FALSE, map |-> cached.map]
       ELSE IF resultIndex < 0 \/ resultIndex >= Len(cached.value.results)
            THEN [hit |-> FALSE, map |-> cached.map]
            ELSE [hit |-> TRUE, value |-> cached.value.results[resultIndex + 1],
                  map |-> cached.map]

\* variant: clear reports a removal whatever the map held
clear_AlwaysTrue(m, searchId) ==
    [result |-> TRUE, map |-> MapDelete(m, searchId)]

\* Map.delete returns whether the key was present
clear(m, searchId) ==
    [result |-> MapHas(m, searchId), map |-> MapDelete(m, searchId)]

clearAttachment(m, cacheId) ==
    [result |-> MapHas(m, cacheId), map |-> MapDelete(m, cacheId)]

\* variant: the results are read from the map without the expiry check
getSearchResults_NoExpiry(m, t, searchId) ==
    IF MapHas(m, searchId)
    THEN [hit |-> TRUE, value |-> MapGet(m, searchId).results, map |-> m]
    ELSE [hit |-> FALSE, map |-> m]

\* getSearchResults(searchId) at time t
getSearchResults(m, t, searchId) ==
    LET cached == get(m, t, searchId)
    IN IF cached.hit
       THEN [hit |-> TRUE, value |-> cached.value.results, map |-> cached.map]
       ELSE [hit |-> FALSE, map |-> cached.map]

listSearchIds(m) == MapKeys(m)

listAttachmentIds(m) == MapKeys(m)

\* variant: a pass stops at the first entry it has removed
cleanupExpired_OnePerRun(m, t) ==
    LET old == {i \in 1..Len(m) : SweepExpired(t, m[i].v)}
    IN IF old = {} THEN m
       ELSE LET first == CHOOSE i \in old : \A j \in old : i <= j
            IN SubSeq(m, 1, first - 1) \o SubSeq(m, first + 1, Len(m))

\* one pass of cleanupExpired over a map at time t
cleanupExpired(m, t) == SelectSeq(m, LAMBDA e : ~SweepExpired(t, e.v))

(***************************************************************************)
(* History bookkeeping (not program state)                                 *)
(***************************************************************************)
\* keys of map b that a put of handle h removed on the way to map a; a key
\* that was deleted and inserted again has moved to the end of the map
RemovedByPut(b, a, h) ==
    {k \in MapKeySet(b) : k \notin MapKeySet(a)}
    \cup (IF MapHas(b, h)
             /\ SelectSeq(MapKeys(b), LAMBDA k : k \in MapKeySet(a)) # MapKeys(a)
          THEN {h} ELSE {})

HistPut(hs, b, a, h, t) ==
    LET gone == RemovedByPut(b, a, h)
        keep == DOMAIN hs \ gone
    IN [k \in keep \cup {h} |->
           IF k = h THEN [putTime |-> t] ELSE hs[k]]

HistDrop(hs, gone) == [k \in DOMAIN hs \ gone |-> hs[k]]

\* after a lookup or a sweep at time t that left the keys `keys`
HistExpire(hs, t, keys) ==
    HistDrop(hs, {k \in DOMAIN hs : t - hs[k].putTime > ttlMs /\ k \notin keys})

\* the handles whose removals everRemoved records
WatchedHandles == {<<"m", ":", "a">>}

Watched(handles) == handles \cap WatchedHandles

NoLog == [ok |-> FALSE, log |-> << >>]

FreshLog == [ok |-> TRUE, log |-> << >>]

LogPut(l, h) ==
    IF l.ok /\ Len(l.log) < MaxEntries + MaxExtra
            /\ \A i \in 1..Len(l.log) : l.log[i] # h
    THEN [ok |-> TRUE, log |-> Append(l.log, h)]
    ELSE NoLog

\* after an operation that removes entries otherwise than by eviction
LogRemoval(l, b, a) ==
    IF Len(a) = Len(b) THEN l
    ELSE IF Len(a) = 0 THEN FreshLog ELSE NoLog

(***************************************************************************)
(* Initial state of the authenticator and of the send tool                 *)
(***************************************************************************)
\* GraphAuthenticator after its constructor, nothing on disk
AuthInit ==
    /\ cachedToken = << >>
    /\ isInitialized = FALSE
    /\ tokenFile = << >>
    /\ msalCache = << >>

\* SendMessage before execute is called
SendInit ==
    /\ sendPc = "idle"
    /\ sendInput = << >>
    /\ draftMessage = << >>
    /\ graphCalls = << >>
    /\ sendResult = << >>

(***************************************************************************)
(* Initial state: a freshly constructed ResultCache                        *)
(***************************************************************************)
\* new ResultCache(ttl, max): the fields after the constructor has run
ResultCacheConstructor(ttl, max) == [ttlMs |-> ttl, maxEntries |-> max]

\* the state after new ResultCache(TtlMs, MaxEntries)
CacheInit ==
    /\ ttlMs = ResultCacheConstructor(TtlMs, MaxEntries).ttlMs
    /\ maxEntries = ResultCacheConstructor(TtlMs, MaxEntries).maxEntries
    /\ unswept = << >>
    /\ pending = [search_content |-> 0, get_attachments |-> 0]
    /\ AuthInit
    /\ SendInit
    /\ now = 0
    /\ searchCache = << >>
    /\ attachmentCache = << >>
    /\ last = [op |-> "init"]
    /\ hist = [k \in {} |-> 0]
    /\ everRemoved = {}
    /\ insLog = [search |-> FreshLog, attachment |-> FreshLog]

\* a search handle and an attachment handle that are never cached
AbsentSearchId == <<"9", "9", "-", "z">>

AbsentCacheId == <<"z", ":", "z">>

\* the handles looked up or cleared: those in the map, and an absent one
SearchHandles == MapKeySet(searchCache) \cup {AbsentSearchId}

AttachmentHandles == MapKeySet(attachmentCache) \cup {AbsentCacheId}

\* the clock advances
Tick ==
    /\ now < MaxTime
    /\ now' = now + 1
    /\ last' = [op |-> "tick"]
    /\ UNCHANGED <<searchCache, attachmentCache, hist, everRemoved, insLog>>
    /\ UNCHANGED <<batchVars, configVars, twinVars, pendingVars, authVars, sendVars>>

(***************************************************************************)
(* SearchContent: the brief results returned for the hits of one search    *)
(***************************************************************************)
maxChars == 150

Rep(c, n) == [i \in 1..n |-> c]

\* text.substring(0, n)
Substring0(text, n) == SubSeq(text, 1, IF n < Len(text) THEN n ELSE Len(text))

\* truncated.lastIndexOf(' '): zero-based, -1 when there is no space
LastIndexOfSpace(text) ==
    LET at == {i \in 1..Len(text) : text[i] = " "}
    IN IF at = {} THEN -1 ELSE (CHOOSE i \in at : \A j \in at : j <= i) - 1

\* extracts.reduce((prev, curr) => curr.relevanceScore > prev.relevanceScore ? curr : prev)
RECURSIVE reduceTop(_, _, _)
reduceTop(extracts, i, prev) ==
    IF i > Len(extracts) THEN prev
    ELSE reduceTop(extracts, i + 1,
                   IF extracts[i].relevanceScore > prev.relevanceScore
                   THEN extracts[i] ELSE prev)

createBriefExcerpt(extracts) ==
    IF Len(extracts) = 0 THEN << >>
    ELSE LET text == reduceTop(extracts, 2, extracts[1]).text
             truncated == Substring0(text, maxChars)
             lastSpace == LastIndexOfSpace(truncated)
         IN IF Len(text) <= maxChars THEN text
            ELSE IF lastSpace > 0
                 THEN Substring0(truncated, lastSpace) \o <<".", ".", ".">>
                 ELSE truncated \o <<".", ".", ".">>

\* Math.max(...hit.extracts.map(e => e.relevanceScore)), 0 without extracts
RECURSIVE maxScore(_, _, _)
maxScore(extracts, i, acc) ==
    IF i > Len(extracts) THEN acc
    ELSE maxScore(extracts, i + 1,
                  IF extracts[i].relevanceScore > acc
                  THEN extracts[i].relevanceScore ELSE acc)

relevance(hit) ==
    IF Len(hit.extracts) > 0
    THEN maxScore(hit.extracts, 2, hit.extracts[1].relevanceScore)
    ELSE 0

CopilotScheme ==
    <<"c", "o", "p", "i", "l", "o", "t", ":", "/", "/", "s", "e", "a", "r", "c", "h", "-">>

ResultPart == <<"/", "r", "e", "s", "u", "l", "t", "-">>

\* variant: the brief result carries its position counted from one
briefResult_FromOne(searchId, hit, index) ==
    [resultId |-> Tail(ResultPart) \o NumToString(index + 1),
     url |-> hit.webUrl,
     relevance |-> relevance(hit),
     briefExcerpt |-> createBriefExcerpt(hit.extracts),
     resourceType |-> hit.resourceType,
     resourceUri |-> CopilotScheme \o searchId \o ResultPart \o NumToString(index + 1)]

\* the element that retrievalHits.map((hit, index) => ...) makes of one hit
briefResult(searchId, hit, index) ==
    [resultId |-> Tail(ResultPart) \o NumToString(index),
     url |-> hit.webUrl,
     relevance |-> relevance(hit),
     briefExcerpt |-> createBriefExcerpt(hit.extracts),
     resourceType |-> hit.resourceType,
     resourceUri |-> CopilotScheme \o searchId \o ResultPart \o NumToString(index)]

\* briefResults.sort((a, b) => b.relevance - a.relevance): stable, highest
\* relevance first
RECURSIVE InsertByRelevance(_, _)
InsertByRelevance(sorted, r) ==
    IF Len(sorted) = 0 THEN <<r>>
    ELSE IF sorted[Len(sorted)].relevance >= r.relevance THEN Append(sorted, r)
    ELSE Append(InsertByRelevance(SubSeq(sorted, 1, Len(sorted) - 1), r),
                sorted[Len(sorted)])

RECURSIVE sortByRelevance(_, _, _)
sortByRelevance(results, i, acc) ==
    IF i > Len(results) THEN acc
    ELSE sortByRelevance(results, i + 1, InsertByRelevance(acc, results[i]))

\* the results of the response of SearchContent.execute
briefResults(searchId, hits) ==
    sortByRelevance([i \in 1..Len(hits) |-> briefResult(searchId, hits[i], i - 1)],
                    1, << >>)

(***************************************************************************)
(* Tools that put into the cache.  The two maps share no state, and the    *)
(* model explores them one at a time: a tool puts into one cache while the *)
(* other one is empty.                                                     *)
(***************************************************************************)
\* SearchContent.execute from the return of copilotRetrieval on
SearchContentStep(run) ==
        LET searchId == generateSearchId(now, run.suffix)
            after == set(searchCache, now, searchId, "q", run.hits)
            gone == RemovedByPut(searchCache, after, searchId)
        IN /\ searchCache' = after
           /\ last' = [op |-> "search_content", cache |-> "search",
                       puts |-> <<[handle |-> searchId, removed |-> gone,
                                   full |-> Len(searchCache) >= maxEntries]>>,
                       hits |-> run.hits,
                       results |-> briefResults(searchId, run.hits)]
           /\ hist' = HistPut(hist, searchCache, after, searchId, now)
           /\ everRemoved' = everRemoved \cup Watched(gone)
           /\ insLog' = [insLog EXCEPT !.search = LogPut(@, searchId)]
           /\ UNCHANGED <<now, attachmentCache>>
           /\ UNCHANGED <<batchVars, configVars, twinVars, authVars, sendVars>>

\* SearchContent.execute after copilotRetrieval has returned the hits
SearchContentExecute ==
    \E run \in SearchRuns :
        /\ Len(attachmentCache) = 0
        /\ SearchContentStep(run)
        /\ UNCHANGED pending

AttachmentScheme == <<"a", "t", "t", "a", "c", "h", "m", "e", "n", "t", ":", "/", "/">>

\* GetAttachments.processAttachments from attachment i on: the map, the
\* details returned and, for the history, every put with the map before
\* and after it
RECURSIVE processAttachments(_, _, _, _, _, _)
processAttachments(acc, attachments, i, t, includeContent, messageId) ==
    IF i > Len(attachments) THEN acc
    ELSE LET att == attachments[i]
             cached == includeContent /\ att.contentBytes # ""
             after == IF cached
                      THEN setAttachment(acc.map, t, messageId, att.id, att)
                      ELSE acc.map
             cacheId == generateAttachmentId(messageId, att.id)
             detail == [id |-> att.id, name |-> att.name,
                        contentType |-> att.contentType, size |-> att.size,
                        resourceUri |-> IF cached THEN AttachmentScheme \o cacheId
                                        ELSE << >>]
         IN processAttachments(
                [map |-> after,
                 details |-> Append(acc.details, detail),
                 puts |-> IF cached
                          THEN Append(acc.puts, [handle |-> cacheId,
                                                 attachmentId |-> att.id,
                                                 attachment |-> att,
                                                 before |-> acc.map,
                                                 after |-> after])
                          ELSE acc.puts],
                attachments, i + 1, t, includeContent, messageId)

RECURSIVE HistPuts(_, _, _, _)
HistPuts(hs, puts, i, t) ==
    IF i > Len(puts) THEN hs
    ELSE HistPuts(HistPut(hs, puts[i].before, puts[i].after, puts[i].handle, t),
                  puts, i + 1, t)

RECURSIVE LogPuts(_, _, _)
LogPuts(l, puts, i) ==
    IF i > Len(puts) THEN l ELSE LogPuts(LogPut(l, puts[i].handle), puts, i + 1)

\* GetAttachments.execute from the return of graphClient.getAttachments on
GetAttachmentsStep(run) ==
        LET r == processAttachments(
                     [map |-> attachmentCache, details |-> << >>, puts |-> << >>],
                     run.attachments, 1, now, run.includeContent, run.messageId)
            gone(i) == RemovedByPut(r.puts[i].before, r.puts[i].after,
                                    r.puts[i].handle)
        IN /\ attachmentCache' = r.map
           /\ last' = [op |-> "get_attachments", cache |-> "attachment",
                       details |-> r.details,
                       puts |-> [i \in 1..Len(r.puts) |->
                                    [handle |-> r.puts[i].handle,
                                     messageId |-> run.messageId,
                                     attachmentId |-> r.puts[i].attachmentId,
                                     attachment |-> r.puts[i].attachment,
                                     replaced |-> MapHas(r.puts[i].before,
                                                         r.puts[i].handle),
                                     removed |-> gone(i),
                                     full |-> Len(r.puts[i].before) >= maxEntries]]]
           /\ hist' = HistPuts(hist, r.puts, 1, now)
           /\ everRemoved' = everRemoved \cup Watched(UNION {gone(i) : i \in 1..Len(r.puts)})
           /\ insLog' = [insLog EXCEPT !.attachment = LogPuts(@, r.puts, 1)]
           /\ UNCHANGED <<now, searchCache>>
           /\ UNCHANGED <<batchVars, configVars, twinVars, authVars, sendVars>>

\* GetAttachments.execute after graphClient.getAttachments has returned
GetAttachmentsExecute ==
    \E run \in AttachmentRuns :
        /\ Len(searchCache) = 0
        /\ GetAttachmentsStep(run)
        /\ UNCHANGED pending

(***************************************************************************)
(* Lookups, removals and the sweep                                         *)
(***************************************************************************)
Get ==
    \E searchId \in SearchHandles :
        LET r == get(searchCache, now, searchId)
        IN /\ searchCache' = r.map
           /\ last' = [op |-> "get", handle |-> searchId, hit |-> r.hit,
                       present |-> MapHas(searchCache, searchId)]
           /\ hist' = IF r.hit THEN hist
                      ELSE HistExpire(hist, now, MapKeySet(r.map) \cup MapKeySet(attachmentCache))
           /\ everRemoved' = everRemoved
                                \cup Watched(MapKeySet(searchCache) \ MapKeySet(r.map))
           /\ insLog' = [insLog EXCEPT !.search = LogRemoval(@, searchCache, r.map)]
           /\ UNCHANGED <<now, attachmentCache>>
           /\ UNCHANGED <<batchVars, configVars, twinVars, pendingVars, authVars, sendVars>>

GetAttachment ==
    \E cacheId \in AttachmentHandles :
        LET r == getAttachment(attachmentCache, now, cacheId)
        IN /\ attachmentCache' = r.map
           /\ last' = [op |-> "getAttachment", handle |-> cacheId, hit |-> r.hit,
                       present |-> MapHas(attachmentCache, cacheId)]
           /\ hist' = IF r.hit THEN hist
                      ELSE HistExpire(hist, now, MapKeySet(r.map) \cup MapKeySet(searchCache))
           /\ everRemoved' = everRemoved
                                \cup Watched(MapKeySet(attachmentCache) \ MapKeySet(r.map))
           /\ insLog' = [insLog EXCEPT
                             !.attachment = LogRemoval(@, attachmentCache, r.map)]
           /\ UNCHANGED <<now, searchCache>>
           /\ UNCHANGED <<batchVars, configVars, twinVars, pendingVars, authVars, sendVars>>

\* clear(searchId)
ClearStep(searchId) ==
        LET after == clear(searchCache, searchId).map
        IN /\ searchCache' = after
           /\ last' = [op |-> "clear", handle |-> searchId,
                       result |-> clear(searchCache, searchId).result]
           /\ hist' = HistDrop(hist, {searchId})
           /\ everRemoved' = everRemoved
                                \cup Watched(MapKeySet(searchCache) \ MapKeySet(after))
           /\ insLog' = [insLog EXCEPT !.search = LogRemoval(@, searchCache, after)]
           /\ UNCHANGED <<now, attachmentCache>>
           /\ UNCHANGED <<batchVars, configVars, twinVars, pendingVars, authVars, sendVars>>

Clear == \E searchId \in SearchHandles : ClearStep(searchId)

\* clearAttachment(cacheId)
ClearAttachmentStep(cacheId) ==
        LET after == clearAttachment(attachmentCache, cacheId).map
        IN /\ attachmentCache' = after
           /\ last' = [op |-> "clearAttachment", handle |-> cacheId,
                       result |-> clearAttachment(attachmentCache, cacheId).result]
           /\ hist' = HistDrop(hist, {cacheId})
           /\ everRemoved' = everRemoved
                                \cup Watched(MapKeySet(attachmentCache) \ MapKeySet(after))
           /\ insLog' = [insLog EXCEPT
                             !.attachment = LogRemoval(@, attachmentCache, after)]
           /\ UNCHANGED <<now, searchCache>>
           /\ UNCHANGED <<batchVars, configVars, twinVars, pendingVars, authVars, sendVars>>

ClearAttachment == \E cacheId \in AttachmentHandles : ClearAttachmentStep(cacheId)

ClearAll ==
    /\ searchCache' = << >>
    /\ attachmentCache' = << >>
    /\ last' = [op |-> "clearAll"]
    /\ hist' = [k \in {} |-> 0]
    /\ everRemoved' = everRemoved
                         \cup Watched(MapKeySet(searchCache) \cup MapKeySet(attachmentCache))
    /\ insLog' = [search |-> FreshLog, attachment |-> FreshLog]
    /\ UNCHANGED now
    /\ UNCHANGED <<batchVars, configVars, twinVars, pendingVars, authVars, sendVars>>

\* one run of cleanupExpired over both maps; `counted` says whether the
\* run is recorded with its counters removedSearches and removedAttachments
CleanupExpiredStep(counted) ==
    LET s == cleanupExpired(searchCache, now)
        a == cleanupExpired(attachmentCache, now)
    IN /\ searchCache' = s
       /\ attachmentCache' = a
       /\ last' = IF counted
                  THEN [op |-> "cleanupExpired",
                        removedSearches |-> Len(searchCache) - Len(s),
                        removedAttachments |-> Len(attachmentCache) - Len(a)]
                  ELSE [op |-> "cleanupExpired"]
       /\ everRemoved' = everRemoved
                            \cup Watched(MapKeySet(searchCache) \ MapKeySet(s))
                            \cup Watched(MapKeySet(attachmentCache) \ MapKeySet(a))
       /\ insLog' = [search |-> LogRemoval(insLog.search, searchCache, s),
                     attachment |-> LogRemoval(insLog.attachment, attachmentCache, a)]
       /\ hist' = HistExpire(hist, now, MapKeySet(s) \cup MapKeySet(a))
       /\ UNCHANGED now
       /\ UNCHANGED <<batchVars, configVars, twinVars, pendingVars, authVars, sendVars>>

\* the interval callback: cleanupExpired over both maps
CleanupExpired ==
    /\ now \in 0..MaxTime
    /\ CleanupExpiredStep(FALSE)

(***************************************************************************)
(* MCP resource handlers                                                   *)
(***************************************************************************)
\* characters the regular expression's `.` does not match
LineTerminators == {"\n", "\r"}

\* position of the first "/" of s, or 0
FirstSlash(s) ==
    IF \E i \in 1..Len(s) : s[i] = "/"
    THEN CHOOSE i \in 1..Len(s) : s[i] = "/" /\ \A j \in 1..(i - 1) : s[j] # "/"
    ELSE 0

\* uri.match(/^copilot:\/\/search-([^/]+)\/result-(\d+)$/)
copilotMatch(uri) ==
    IF ~StartsWith(uri, CopilotScheme) THEN [matched |-> FALSE]
    ELSE LET rest == DropPrefix(uri, CopilotScheme)
             k == FirstSlash(rest)
             tail == SubSeq(rest, k, Len(rest))
             digits == DropPrefix(tail, ResultPart)
         IN IF /\ k >= 2
               /\ StartsWith(tail, ResultPart)
               /\ Len(digits) >= 1
               /\ \A i \in 1..Len(digits) : IsDigit(digits[i])
            THEN [matched |-> TRUE, searchId |-> SubSeq(rest, 1, k - 1),
                  resultIndex |-> ParseInt(digits)]
            ELSE [matched |-> FALSE]

\* variant: the handle group is (.*) and also matches the empty string
attachmentMatch_Star(uri) ==
    IF ~StartsWith(uri, AttachmentScheme) THEN [matched |-> FALSE]
    ELSE LET rest == DropPrefix(uri, AttachmentScheme)
         IN IF \A i \in 1..Len(rest) : rest[i] \notin LineTerminators
            THEN [matched |-> TRUE, attachmentId |-> rest]
            ELSE [matched |-> FALSE]

\* uri.match(/^attachment:\/\/(.+)$/)
attachmentMatch(uri) ==
    IF ~StartsWith(uri, AttachmentScheme) THEN [matched |-> FALSE]
    ELSE LET rest == DropPrefix(uri, AttachmentScheme)
         IN IF Len(rest) >= 1 /\ \A i \in 1..Len(rest) : rest[i] \notin LineTerminators
            THEN [matched |-> TRUE, attachmentId |-> rest]
            ELSE [matched |-> FALSE]

\* the content object the handler serialises for a search hit
FullContent(hit) ==
    [url |-> hit.webUrl,
     resourceType |-> hit.resourceType,
     sensitivityLabel |-> hit.sensitivityLabel,
     metadata |-> hit.resourceMetadata,
     extracts |-> [i \in 1..Len(hit.extracts) |->
                      [text |-> hit.extracts[i].text,
                       relevanceScore |-> hit.extracts[i].relevanceScore]],
     totalExtracts |-> Len(hit.extracts)]

\* the ReadResource handler at time t: its outcome and the maps afterwards
readResource(sc, ac, t, uri) ==
    LET cm == copilotMatch(uri)
        am == attachmentMatch(uri)
    IN IF cm.matched
       THEN LET hit == getResult(sc, t, cm.searchId, cm.resultIndex)
            IN IF ~hit.hit
               THEN [outcome |-> "Resource not found (may have expired from cache)",
                     search |-> hit.map, attachment |-> ac]
               ELSE [outcome |-> "contents", mimeType |-> "application/json",
                     text |-> FullContent(hit.value),
                     search |-> hit.map, attachment |-> ac]
       ELSE IF am.matched
       THEN LET att == getAttachment(ac, t, am.attachmentId)
            IN IF ~att.hit
               THEN [outcome |-> "Attachment not found (may have expired from cache)",
                     search |-> sc, attachment |-> att.map]
               ELSE [outcome |-> "contents",
                     mimeType |-> IF att.value.contentType # ""
                                  THEN att.value.contentType
                                  ELSE "application/octet-stream",
                     blob |-> att.value.contentBytes,
                     search |-> sc, attachment |-> att.map]
       ELSE [outcome |-> "Invalid resource URI", search |-> sc, attachment |-> ac]

CopilotUri(searchId, digits) == CopilotScheme \o searchId \o ResultPart \o digits

AttachmentUri(cacheId) == AttachmentScheme \o cacheId

\* the index parts of the URIs that are read
IndexStrings == {<<"0">>, <<"1">>, <<"3">>, <<"0", "2">>}

\* URIs that follow neither reference format
MalformedUris ==
    {<< >>,
     CopilotScheme \o <<"0", "-", "x">> \o ResultPart,
     CopilotScheme \o <<"0", "-", "x">> \o ResultPart \o <<"1", "x">>,
     CopilotScheme \o ResultPart \o <<"0">>,
     CopilotScheme \o <<"0", "-", "x", "/", "y">> \o ResultPart \o <<"0">>,
     AttachmentScheme,
     <<"x">> \o AttachmentUri(<<"m", ":", "a">>),
     AttachmentScheme \o <<"m", "\n", ":", "a">>}

\* the URIs that are read: every reference into the cached entries, into an
\* absent entry, and the malformed ones
ReadUris ==
    {CopilotUri(h, d) : h \in SearchHandles, d \in IndexStrings}
    \cup {AttachmentUri(h) : h \in AttachmentHandles}
    \cup MalformedUris

ReadResource ==
    \E uri \in ReadUris :
        LET r == readResource(searchCache, attachmentCache, now, uri)
            keys == MapKeySet(r.search) \cup MapKeySet(r.attachment)
        IN /\ searchCache' = r.search
           /\ attachmentCache' = r.attachment
           /\ last' = [op |-> "ReadResource", uri |-> uri,
                       result |-> [f \in DOMAIN r \ {"search", "attachment"} |-> r[f]]]
           /\ hist' = HistExpire(hist, now, keys)
           /\ everRemoved' = everRemoved
                 \cup Watched((MapKeySet(searchCache) \cup MapKeySet(attachmentCache)) \ keys)
           /\ insLog' = [search |-> LogRemoval(insLog.search, searchCache, r.search),
                         attachment |-> LogRemoval(insLog.attachment,
                                                   attachmentCache, r.attachment)]
           /\ UNCHANGED now
           /\ UNCHANGED <<batchVars, configVars, twinVars, pendingVars, authVars, sendVars>>

\* the descriptors the ListResources handler builds for the search ids from
\* position i on, each looked up at time t
RECURSIVE listSearchResources(_, _, _, _, _)
listSearchResources(acc, m, ids, i, t) ==
    IF i > Len(ids) THEN [resources |-> acc, map |-> m]
    ELSE LET results == getSearchResults(m, t, ids[i])
             found == IF results.hit
                      THEN [j \in 1..Len(results.value) |->
                               [uri |-> CopilotUri(ids[i], NumToString(j - 1)),
                                name |-> <<"Search result", j, "from", ids[i]>>,
                                description |-> <<"Full text extracts for",
                                                  results.value[j].webUrl>>,
                                mimeType |-> "application/json"]]
                      ELSE << >>
         IN listSearchResources(acc \o found, results.map, ids, i + 1, t)

RECURSIVE listAttachmentResources(_, _, _, _, _)
listAttachmentResources(acc, m, ids, i, t) ==
    IF i > Len(ids) THEN [resources |-> acc, map |-> m]
    ELSE LET att == getAttachment(m, t, ids[i])
             found == IF att.hit
                      THEN <<[uri |-> AttachmentUri(ids[i]),
                              name |-> att.value.name,
                              description |-> <<"Email attachment:", att.value.name,
                                                att.value.contentType, att.value.size>>,
                              mimeType |-> IF att.value.contentType # ""
                                           THEN att.value.contentType
                                           ELSE "application/octet-stream"]>>
                      ELSE << >>
         IN listAttachmentResources(acc \o found, att.map, ids, i + 1, t)

ListResources ==
    LET s == listSearchResources(<< >>, searchCache, listSearchIds(searchCache), 1, now)
        a == listAttachmentResources(s.resources, attachmentCache,
                                     listAttachmentIds(attachmentCache), 1, now)
        keys == MapKeySet(s.map) \cup MapKeySet(a.map)
    IN /\ searchCache' = s.map
       /\ attachmentCache' = a.map
       /\ last' = [op |-> "ListResources", resources |-> a.resources]
       /\ hist' = HistExpire(hist, now, keys)
       /\ everRemoved' = everRemoved
             \cup Watched((MapKeySet(searchCache) \cup MapKeySet(attachmentCache)) \ keys)
       /\ insLog' = [search |-> LogRemoval(insLog.search, searchCache, s.map),
                     attachment |-> LogRemoval(insLog.attachment, attachmentCache, a.map)]
       /\ UNCHANGED now
       /\ UNCHANGED <<batchVars, configVars, twinVars, pendingVars, authVars, sendVars>>

CacheNext ==
    \/ Tick
    \/ SearchContentExecute
    \/ GetAttachmentsExecute
    \/ Get
    \/ GetAttachment
    \/ Clear
    \/ ClearAttachment
    \/ ClearAll
    \/ CleanupExpired
    \/ ReadResource
    \/ ListResources

(***************************************************************************)
(* GraphClient.executeRequest / executeBatch and SearchByEntities.execute  *)
(***************************************************************************)
BatchLimit == 20

maxRetries == 3

maxResultsPerEntity == 5

\* the status codes with which an upstream call fails
ErrorStatuses == {429, 401, 503, 403}

\* variant: slice(i, i + size + 1), each chunk runs one element into the next
RECURSIVE chunkArray_Inclusive(_, _, _)
chunkArray_Inclusive(array, size, i) ==
    IF i > Len(array) THEN << >>
    ELSE <<SubSeq(array, i, IF i + size < Len(array) THEN i + size
                            ELSE Len(array))>>
         \o chunkArray_Inclusive(array, size, i + size)

\* chunkArray(array, size) from position i on
RECURSIVE chunkArray(_, _, _)
chunkArray(array, size, i) ==
    IF i > Len(array) THEN << >>
    ELSE <<SubSeq(array, i, IF i + size - 1 < Len(array) THEN i + size - 1
                            ELSE Len(array))>>
         \o chunkArray(array, size, i + size)

\* the entity lists given to execute: n distinct names, or n names of
\* which the last repeats the first
EntityLists ==
    {[i \in 1..n |-> <<"entity", i>>] : n \in 0..MaxEntities}
    \cup {[i \in 1..n |-> IF i = n THEN <<"entity", 1>> ELSE <<"entity", i>>] :
             n \in 2..MaxEntities}

\* entities.map((entity, index) => ({ id: index.toString(), ... }))
buildRequests(ents) ==
    [i \in 1..Len(ents) |->
        [id |-> NumToString(i - 1), method |-> "GET", url |-> ents[i]]]

Message(n, date) == [id |-> n, receivedDateTime |-> date]

\* what upstream answers to one request of a batch: an empty list, a body
\* with no list at all, one message, or three messages out of order
UpstreamBody(index) ==
    IF index % 6 = 3 THEN [context |-> "messages"]
    ELSE IF index % 3 = 0 THEN [value |-> << >>]
    ELSE IF index % 3 = 1 THEN [value |-> <<Message(1, 5)>>]
    ELSE [value |-> <<Message(1, 3), Message(2, 7), Message(3, 5)>>]

Ok200(req) == [id |-> req.id, status |-> 200, body |-> UpstreamBody(ParseInt(req.id))]

Throttled(req) ==
    [id |-> req.id, status |-> 429,
     body |-> [error |-> [message |-> "Too many requests"]]]

Reverse(q) == [i \in 1..Len(q) |-> q[Len(q) + 1 - i]]

\* the response lists with which upstream answers a chunk
ResponseShapes ==
    {"complete", "mixed", "reversed", "omitFirst", "empty", "repeatFirst", "foreign"}

UpstreamResponses(chunk, shape) ==
    LET mixed == [i \in 1..Len(chunk) |->
                     IF i % 2 = 1 THEN Ok200(chunk[i]) ELSE Throttled(chunk[i])]
        complete == [i \in 1..Len(chunk) |-> Ok200(chunk[i])]
    IN CASE shape = "complete" -> complete
         [] shape = "mixed" -> mixed
         [] shape = "reversed" -> Reverse(mixed)
         [] shape = "omitFirst" -> Tail(mixed)
         [] shape = "empty" -> << >>
         [] shape = "repeatFirst" -> Append(complete, Throttled(chunk[1]))
         [] shape = "foreign" ->
                Append(Tail(complete),
                       [id |-> <<"x">>, status |-> 200, body |-> UpstreamBody(0)])

\* a catch block that reports the failed chunk once, under its first id
SynthesizedErrors_Once(chunk, message) ==
    <<[id |-> chunk[1].id, status |-> 500,
       body |-> [error |-> [message |-> <<"Batch request failed:", message>>]]]>>

\* the forEach of the catch block: one error response per request
SynthesizedErrors(chunk, message) ==
    [i \in 1..Len(chunk) |->
        [id |-> chunk[i].id, status |-> 500,
         body |-> [error |-> [message |-> <<"Batch request failed:", message>>]]]]

\* ResultProcessor.processEmailToSummary
processEmailToSummary(message) ==
    [messageId |-> message.id, receivedDateTime |-> message.receivedDateTime]

processEmails(messages) ==
    [i \in 1..Len(messages) |-> processEmailToSummary(messages[i])]

\* Array.prototype.sort with (a, b) => dateB - dateA: stable, newest first
RECURSIVE InsertByDate(_, _)
InsertByDate(sorted, e) ==
    IF Len(sorted) = 0 THEN <<e>>
    ELSE IF Head(sorted).receivedDateTime >= e.receivedDateTime
         THEN <<Head(sorted)>> \o InsertByDate(Tail(sorted), e)
         ELSE <<e>> \o sorted

RECURSIVE sortByDate(_)
sortByDate(emails) ==
    IF Len(emails) = 0 THEN << >>
    ELSE InsertByDate(sortByDate(SubSeq(emails, 1, Len(emails) - 1)),
                      emails[Len(emails)])

limitResults(emails, maxCount) ==
    SubSeq(emails, 1, IF maxCount < Len(emails) THEN maxCount ELSE Len(emails))

getLatestDate(emails) ==
    IF Len(emails) = 0 THEN "undefined"
    ELSE sortByDate(emails)[1].receivedDateTime

getErrorMessage(body) ==
    IF "error" \in DOMAIN body THEN body.error.message ELSE "Unknown error"

\* batchResult.responses.find(r => r.id === i.toString())
findResponse(responses, id) ==
    IF \E k \in 1..Len(responses) : responses[k].id = id
    THEN [found |-> TRUE,
          response |-> responses[CHOOSE k \in 1..Len(responses) :
                                    /\ responses[k].id = id
                                    /\ \A j \in 1..(k - 1) : responses[j].id # id]]
    ELSE [found |-> FALSE]

\* the value stored under the entity of index i (from 0)
entityResult(responses, i) ==
    LET r == findResponse(responses, NumToString(i))
    IN IF ~r.found
       THEN [matchCount |-> 0, emails |-> << >>, error |-> "No response from server"]
       ELSE IF r.response.status # 200
       THEN [matchCount |-> 0, emails |-> << >>,
             error |-> <<"Error", r.response.status,
                         getErrorMessage(r.response.body)>>]
       ELSE LET messages == IF "value" \in DOMAIN r.response.body
                            THEN r.response.body.value ELSE << >>
                sortedEmails == sortByDate(processEmails(messages))
            IN [matchCount |-> Len(messages),
                latestDate |-> getLatestDate(sortedEmails),
                emails |-> limitResults(sortedEmails, maxResultsPerEntity)]

\* the loop of execute over the entities: a later assignment to the same
\* key replaces the earlier one
processResults(ents, responses) ==
    [e \in {ents[i] : i \in 1..Len(ents)} |->
        entityResult(responses,
                     (CHOOSE i \in 1..Len(ents) :
                          ents[i] = e /\ \A j \in (i + 1)..Len(ents) : ents[j] # e) - 1)]

NoResults == [e \in {} |-> 0]

\* variant: the chunks are posted together (Promise.all over the chunks)
Issue_Together(chunks, c, att) ==
    {[chunk |-> k, attempt |-> att] : k \in c..Len(chunks)}

\* the POST that `await this.executeRequest('/$batch', ...)` has in flight
\* once the loop over chunks has reached chunk c and its attempt att
Issue(chunks, c, att) == {[chunk |-> c, attempt |-> att]}

BatchInit ==
    /\ pc = "idle"
    /\ entities = << >>
    /\ batchRequests = << >>
    /\ chunkIdx = 0
    /\ attempt = 0
    /\ allResponses = << >>
    /\ emailSearchResult = NoResults
    /\ chunkLog = << >>
    /\ inFlight = {}
    /\ statusLog = << >>

Chunks == chunkArray(batchRequests, BatchLimit, 1)

\* execute is called: the requests are built and executeBatch issues the
\* first chunk, or returns at once for an empty list
Execute ==
    \E ents \in EntityLists :
        /\ pc = "idle"
        /\ entities' = ents
        /\ batchRequests' = buildRequests(ents)
        /\ allResponses' = << >>
        /\ chunkLog' = << >>
        /\ attempt' = 0
        /\ statusLog' = << >>
        /\ IF Len(ents) = 0
           THEN /\ chunkIdx' = 0
                /\ emailSearchResult' = processResults(ents, << >>)
                /\ pc' = "done"
                /\ inFlight' = {}
           ELSE /\ chunkIdx' = 1
                /\ emailSearchResult' = NoResults
                /\ pc' = "request"
                /\ inFlight' = Issue(chunkArray(buildRequests(ents), BatchLimit, 1),
                                     1, 0)
        /\ UNCHANGED <<cacheVars, configVars, twinVars, pendingVars, authVars, sendVars>>

\* the body of the for..of loop has ended for the current chunk with the
\* responses `added`: the next chunk is issued, or executeBatch returns and
\* execute builds its result
FinishChunk(added, logEntry) ==
    /\ allResponses' = allResponses \o added
    /\ chunkLog' = Append(chunkLog, logEntry)
    /\ attempt' = 0
    /\ IF chunkIdx < Len(Chunks)
       THEN /\ chunkIdx' = chunkIdx + 1
            /\ pc' = "request"
            /\ inFlight' = Issue(Chunks, chunkIdx + 1, 0)
            /\ UNCHANGED emailSearchResult
       ELSE /\ chunkIdx' = chunkIdx
            /\ pc' = "done"
            /\ inFlight' = {}
            /\ emailSearchResult' = processResults(entities, allResponses \o added)
    /\ UNCHANGED <<entities, batchRequests>>
    /\ UNCHANGED <<cacheVars, configVars, twinVars, pendingVars, authVars, sendVars>>

\* the catch block of executeBatch
FailChunk(message) ==
    FinishChunk(SynthesizedErrors(Chunks[chunkIdx], message),
                [outcome |-> "failed", message |-> message])

\* the answers that the running executeRequest call has got so far
StatusesSoFar == IF attempt = 0 THEN << >> ELSE statusLog

\* the POST of the current chunk succeeds
UpstreamAnswers ==
    \E shape \in ResponseShapes :
        /\ pc = "request"
        /\ statusLog' = Append(StatusesSoFar, 200)
        /\ FinishChunk(UpstreamResponses(Chunks[chunkIdx], shape),
                       [outcome |-> "ok",
                        responses |-> UpstreamResponses(Chunks[chunkIdx], shape)])

\* the POST of the current chunk fails with a status code; refreshed says
\* whether authenticator.getAccessToken succeeds after a 401
UpstreamFails ==
    \E status \in ErrorStatuses, refreshed \in BOOLEAN :
        /\ pc = "request"
        /\ (status # 401 \/ attempt # 0) => refreshed
        /\ statusLog' = Append(StatusesSoFar, status)
        /\ IF \/ status = 429
              \/ status = 401 /\ attempt = 0 /\ refreshed
              \/ status >= 500 /\ status < 600
           THEN IF attempt + 1 < maxRetries
                THEN /\ attempt' = attempt + 1
                     /\ inFlight' = Issue(Chunks, chunkIdx, attempt + 1)
                     /\ UNCHANGED <<pc, entities, batchRequests, chunkIdx,
                                    allResponses, emailSearchResult, chunkLog>>
                     /\ UNCHANGED <<cacheVars, configVars, twinVars, pendingVars, authVars, sendVars>>
                ELSE FailChunk("GraphError: Failed after 3 retries")
           ELSE IF status = 401 /\ attempt = 0
                THEN FailChunk("AuthError")
                ELSE FailChunk("GraphError: Graph API request failed")

\* the caller has its result; the tool can be called again
Return ==
    /\ pc = "done"
    /\ pc' = "idle"
    /\ UNCHANGED <<entities, batchRequests, chunkIdx, attempt, allResponses,
                   emailSearchResult, chunkLog, inFlight, statusLog>>
    /\ UNCHANGED <<cacheVars, configVars, twinVars, pendingVars, authVars, sendVars>>

BatchNext ==
    \/ Execute
    \/ UpstreamAnswers
    \/ UpstreamFails
    \/ Return

Init == CacheInit /\ BatchInit

Spec == Init /\ [][CacheNext]_vars

BatchSpec == Init /\ [][BatchNext]_vars

(***************************************************************************)
(* A ResultCache constructed with arguments outside the sensible range     *)
(***************************************************************************)
\* the arguments given to new ResultCache(ttlMs, maxEntries)
ConstructorTtls == {-1, TtlMs}

ConstructorCapacities == {-1, 0}

ConfigInit ==
    /\ \E ttl \in ConstructorTtls, max \in ConstructorCapacities :
          /\ ttlMs = ResultCacheConstructor(ttl, max).ttlMs
          /\ maxEntries = ResultCacheConstructor(ttl, max).maxEntries
    /\ unswept = << >>
    /\ pending = [search_content |-> 0, get_attachments |-> 0]
    /\ AuthInit
    /\ SendInit
    /\ now = 0
    /\ searchCache = << >>
    /\ attachmentCache = << >>
    /\ last = [op |-> "init"]
    /\ hist = [k \in {} |-> 0]
    /\ everRemoved = {}
    /\ insLog = [search |-> FreshLog, attachment |-> FreshLog]
    /\ BatchInit

ConfigSpec == ConfigInit /\ [][CacheNext]_vars

(***************************************************************************)
(* Two ResultCache instances that receive the same calls at the same       *)
(* times: the interval callback runs on the first (attachmentCache) at     *)
(* arbitrary points and never on the second (unswept).                     *)
(***************************************************************************)
\* the attachments of message m that are cached
TwinAttachmentIds == {<<"a">>, <<"b">>, <<"c">>, <<"d">>}

\* the state after new ResultCache(TtlMs, MaxEntries + 1), twice
TwinInit ==
    /\ ttlMs = ResultCacheConstructor(TtlMs, MaxEntries + 1).ttlMs
    /\ maxEntries = ResultCacheConstructor(TtlMs, MaxEntries + 1).maxEntries
    /\ unswept = << >>
    /\ pending = [search_content |-> 0, get_attachments |-> 0]
    /\ AuthInit
    /\ SendInit
    /\ now = 0
    /\ searchCache = << >>
    /\ attachmentCache = << >>
    /\ last = [op |-> "init"]
    /\ hist = [k \in {} |-> 0]
    /\ everRemoved = {}
    /\ insLog = [search |-> FreshLog, attachment |-> FreshLog]
    /\ BatchInit

TwinTick ==
    /\ now < MaxTime
    /\ now' = now + 1
    /\ last' = [op |-> "tick"]
    /\ UNCHANGED <<searchCache, attachmentCache, unswept, hist, everRemoved, insLog>>
    /\ UNCHANGED <<batchVars, configVars, pendingVars, authVars, sendVars>>

\* setAttachment('m', attId, attachment) on both instances
TwinSetAttachment ==
    \E attId \in TwinAttachmentIds :
        /\ attachmentCache' = setAttachment(attachmentCache, now, <<"m">>, attId,
                                            Attachment(attId, "QUFB"))
        /\ unswept' = setAttachment(unswept, now, <<"m">>, attId,
                                    Attachment(attId, "QUFB"))
        /\ last' = [op |-> "setAttachment"]
        /\ UNCHANGED <<now, searchCache, hist, everRemoved, insLog>>
        /\ UNCHANGED <<batchVars, configVars, pendingVars, authVars, sendVars>>

\* getAttachment(cacheId) on both instances
TwinGetAttachment ==
    \E cacheId \in MapKeySet(attachmentCache) \cup MapKeySet(unswept)
                    \cup {AbsentCacheId} :
        LET a == getAttachment(attachmentCache, now, cacheId)
            b == getAttachment(unswept, now, cacheId)
        IN /\ attachmentCache' = a.map
           /\ unswept' = b.map
           /\ last' = [op |-> "getAttachment", handle |-> cacheId,
                       swept |-> [f \in DOMAIN a \ {"map"} |-> a[f]],
                       unswept |-> [f \in DOMAIN b \ {"map"} |-> b[f]]]
           /\ UNCHANGED <<now, searchCache, hist, everRemoved, insLog>>
           /\ UNCHANGED <<batchVars, configVars, pendingVars, authVars, sendVars>>

\* clearAttachment(cacheId) on both instances
TwinClearAttachment ==
    \E cacheId \in MapKeySet(attachmentCache) \cup MapKeySet(unswept) :
        /\ attachmentCache' = MapDelete(attachmentCache, cacheId)
        /\ unswept' = MapDelete(unswept, cacheId)
        /\ last' = [op |-> "clearAttachment"]
        /\ UNCHANGED <<now, searchCache, hist, everRemoved, insLog>>
        /\ UNCHANGED <<batchVars, configVars, pendingVars, authVars, sendVars>>

\* the interval callback of the first instance
TwinSweep ==
    /\ attachmentCache' = cleanupExpired(attachmentCache, now)
    /\ last' = [op |-> "cleanupExpired"]
    /\ UNCHANGED <<now, searchCache, unswept, hist, everRemoved, insLog>>
    /\ UNCHANGED <<batchVars, configVars, pendingVars, authVars, sendVars>>

TwinNext ==
    \/ TwinTick
    \/ TwinSetAttachment
    \/ TwinGetAttachment
    \/ TwinClearAttachment
    \/ TwinSweep

TwinSpec == TwinInit /\ [][TwinNext]_vars

(***************************************************************************)
(* Tool calls in flight together.  A tool call runs until its upstream     *)
(* await, is suspended there while other calls, resource reads and the     *)
(* interval callback run, and runs from the return of the await to its end *)
(* without another suspension: the put is not preceded by a second await.  *)
(* A resource read reaches the cache through getResult and getAttachment   *)
(* only; the lookups Get and GetAttachment stand for the reads here.       *)
(***************************************************************************)
MaxPending == 2

PendingTotal == pending.search_content + pending.get_attachments

\* SearchContent.execute up to the await of copilotRetrieval
CallSearchContent ==
    /\ PendingTotal < MaxPending
    /\ pending' = [pending EXCEPT !.search_content = @ + 1]
    /\ UNCHANGED <<cacheVars, batchVars, configVars, twinVars, authVars, sendVars>>

\* copilotRetrieval resolves: the rest of SearchContent.execute runs
ResumeSearchContent ==
    \E run \in SearchRuns :
        /\ pending.search_content > 0
        /\ Len(attachmentCache) = 0
        /\ SearchContentStep(run)
        /\ pending' = [pending EXCEPT !.search_content = @ - 1]

\* GetAttachments.execute up to the await of graphClient.getAttachments
CallGetAttachments ==
    /\ PendingTotal < MaxPending
    /\ pending' = [pending EXCEPT !.get_attachments = @ + 1]
    /\ UNCHANGED <<cacheVars, batchVars, configVars, twinVars, authVars, sendVars>>

\* getAttachments resolves: the rest of GetAttachments.execute runs
ResumeGetAttachments ==
    \E run \in AttachmentRuns :
        /\ pending.get_attachments > 0
        /\ Len(searchCache) = 0
        /\ GetAttachmentsStep(run)
        /\ pending' = [pending EXCEPT !.get_attachments = @ - 1]

\* the upstream await rejects: the catch block runs and nothing is put
UpstreamRejects ==
    \E tool \in {"search_content", "get_attachments"} :
        /\ pending[tool] > 0
        /\ pending' = [pending EXCEPT ![tool] = @ - 1]
        /\ last' = [op |-> "tool_error", tool |-> tool]
        /\ UNCHANGED <<now, searchCache, attachmentCache, hist, everRemoved, insLog>>
        /\ UNCHANGED <<batchVars, configVars, twinVars, authVars, sendVars>>

ConcurrentNext ==
    \/ CallSearchContent
    \/ ResumeSearchContent
    \/ CallGetAttachments
    \/ ResumeGetAttachments
    \/ UpstreamRejects
    \/ Get
    \/ GetAttachment
    \/ CleanupExpired
    \/ Tick

ConcurrentSpec == Init /\ [][ConcurrentNext]_vars

(***************************************************************************)
(* createBriefExcerpt applied to the extracts of one hit                   *)
(***************************************************************************)
\* texts of extracts: two words of letters around one separator, their
\* lengths chosen around the budget of maxChars
WordLengths == {0, 1, 5, maxChars - 2, maxChars - 1, maxChars}

ExcerptTexts ==
    {Rep("a", i) \o <<sep>> \o Rep("b", j) :
        i \in WordLengths, sep \in {" ", "\t"}, j \in WordLengths}
    \cup {Rep("a", i) : i \in WordLengths \cup {maxChars + 1}}
    \cup {Rep("a", 5) \o <<" ">> \o Rep("b", 5) \o <<" ">> \o Rep("c", maxChars)}

ExtractLists ==
    {<< >>}
    \cup {<<[text |-> t, relevanceScore |-> 50]>> : t \in ExcerptTexts}
    \cup {<<[text |-> <<"l", "o">>, relevanceScore |-> s1],
            [text |-> <<"h", "i">>, relevanceScore |-> s2]>> :
             s1 \in {40, 90}, s2 \in {40, 90}}

ExcerptInit ==
    /\ \E extracts \in ExtractLists : last = [op |-> "hit", extracts |-> extracts]
    /\ ttlMs = ResultCacheConstructor(TtlMs, MaxEntries).ttlMs
    /\ maxEntries = ResultCacheConstructor(TtlMs, MaxEntries).maxEntries
    /\ unswept = << >>
    /\ pending = [search_content |-> 0, get_attachments |-> 0]
    /\ AuthInit
    /\ SendInit
    /\ now = 0
    /\ searchCache = << >>
    /\ attachmentCache = << >>
    /\ hist = [k \in {} |-> 0]
    /\ everRemoved = {}
    /\ insLog = [search |-> FreshLog, attachment |-> FreshLog]
    /\ BatchInit

\* the briefExcerpt of one element of response.retrievalHits.map
CreateBriefExcerpt ==
    /\ last.op = "hit"
    /\ last' = [op |-> "createBriefExcerpt", extracts |-> last.extracts,
                briefExcerpt |-> createBriefExcerpt(last.extracts)]
    /\ UNCHANGED <<now, searchCache, attachmentCache, hist, everRemoved, insLog>>
    /\ UNCHANGED <<batchVars, configVars, twinVars, pendingVars, authVars, sendVars>>

ExcerptNext == CreateBriefExcerpt

ExcerptSpec == ExcerptInit /\ [][ExcerptNext]_vars

(***************************************************************************)
(* Removals made twice: clear and clearAttachment called again with the    *)
(* handle of the call before                                               *)
(***************************************************************************)
ClearAgain ==
    /\ last.op = "clear"
    /\ ClearStep(last.handle)

ClearAttachmentAgain ==
    /\ last.op = "clearAttachment"
    /\ ClearAttachmentStep(last.handle)

RemovalNext ==
    \/ Tick
    \/ SearchContentExecute
    \/ GetAttachmentsExecute
    \/ Get
    \/ GetAttachment
    \/ ReadResource
    \/ Clear
    \/ ClearAttachment
    \/ ClearAgain
    \/ ClearAttachmentAgain

RemovalSpec == Init /\ [][RemovalNext]_vars

(***************************************************************************)
(* Both maps in use together: the tools put into one map whatever the      *)
(* other one holds.  The clock stands still here, so nothing expires.      *)
(***************************************************************************)
\* the runs of get_attachments that store m:a and m:b, or n:a
IndependenceRuns ==
    {run \in AttachmentRuns :
        /\ run.includeContent
        /\ \A i \in 1..Len(run.attachments) : run.attachments[i].contentBytes # ""
        /\ Len(run.attachments) = 2 \/ run.messageId = <<"n">>
        /\ run.attachments[1].id = <<"a">>}

\* the runs of search_content, with a third random suffix: three handles
\* can be drawn in one millisecond
IndependenceSearchRuns ==
    SearchRuns \cup {[suffix |-> <<"z">>, hits |-> <<Hit3>>]}

SearchContentBeside ==
    \E run \in IndependenceSearchRuns :
        /\ SearchContentStep(run)
        /\ UNCHANGED pending

GetAttachmentsBeside ==
    \E run \in IndependenceRuns :
        /\ GetAttachmentsStep(run)
        /\ UNCHANGED pending

IndependenceNext ==
    \/ SearchContentBeside
    \/ GetAttachmentsBeside
    \/ ReadResource
    \/ Get
    \/ GetAttachment
    \/ Clear
    \/ ClearAttachment

IndependenceSpec == Init /\ [][IndependenceNext]_vars

(***************************************************************************)
(* GraphAuthenticator: initialize, getAccessToken and refreshToken, with   *)
(* the two files they write.  What MSAL answers is an input.               *)
(***************************************************************************)
fiveMinutes == 300000    \* 5 * 60 * 1000

defaultLifetime == 3600000

AccessTokens == {"at1", "at2"}

\* the AuthenticationResult of acquireTokenSilent, acquireTokenByCode or
\* acquireTokenByDeviceCode at time t; expiresOn 0 is a missing expiresOn
AuthResponses(t) ==
    [accessToken : AccessTokens,
     expiresOn : {0, t + fiveMinutes + 1},
     account : {"acct"}]

\* the value assigned to this.cachedToken
TokenOf(response, t) ==
    [accessToken |-> response.accessToken,
     expiresAt |-> IF response.expiresOn # 0 THEN response.expiresOn
                   ELSE t + defaultLifetime,
     account |-> response.account]

isTokenValid(token, t) == token.expiresAt - t > fiveMinutes

\* saveCachedToken: JSON.stringify(this.cachedToken) goes to the token file;
\* a failed write is logged and leaves the file as it was
saveCachedToken(token, file, written) ==
    IF token = << >> THEN file
    ELSE IF written THEN token ELSE file

\* afterCacheAccess: MSAL's token cache goes to the MSAL cache file
MsalCacheOf(response) == <<[account |-> response.account, refreshToken |-> "rt"]>>

\* initialize(): silent authentication for a cached account, else the
\* interactive flow, else the device code flow
Initialize ==
    \E silent \in BOOLEAN, flow \in {"interactive", "device", "none"},
       response \in AuthResponses(now), written \in BOOLEAN :
        /\ IF (msalCache # << >> /\ silent) \/ flow # "none"
           THEN /\ cachedToken' = <<TokenOf(response, now)>>
                /\ tokenFile' = saveCachedToken(<<TokenOf(response, now)>>,
                                                tokenFile, written)
                /\ msalCache' = MsalCacheOf(response)
                /\ isInitialized' = TRUE
                /\ last' = [op |-> "initialize", outcome |-> "ok"]
           ELSE /\ last' = [op |-> "initialize", outcome |-> "AuthError"]
                /\ UNCHANGED authVars
        /\ UNCHANGED <<now, searchCache, attachmentCache, hist, everRemoved, insLog>>
        /\ UNCHANGED <<batchVars, configVars, twinVars, pendingVars, sendVars>>

\* getAccessToken(), with refreshToken() when the token is about to expire
GetAccessToken ==
    \E refreshed \in BOOLEAN, response \in AuthResponses(now), written \in BOOLEAN :
        /\ IF ~isInitialized \/ cachedToken = << >>
           THEN /\ last' = [op |-> "getAccessToken", outcome |-> "AuthError"]
                /\ UNCHANGED authVars
           ELSE IF isTokenValid(cachedToken[1], now)
           THEN /\ last' = [op |-> "getAccessToken", outcome |-> "ok",
                            token |-> cachedToken[1].accessToken]
                /\ UNCHANGED authVars
           ELSE IF cachedToken[1].account # "" /\ refreshed
           THEN /\ cachedToken' = <<TokenOf(response, now)>>
                /\ tokenFile' = saveCachedToken(<<TokenOf(response, now)>>,
                                                tokenFile, written)
                /\ msalCache' = MsalCacheOf(response)
                /\ last' = [op |-> "getAccessToken", outcome |-> "ok",
                            token |-> response.accessToken]
                /\ UNCHANGED isInitialized
           ELSE /\ last' = [op |-> "getAccessToken", outcome |-> "AuthError"]
                /\ UNCHANGED authVars
        /\ UNCHANGED <<now, searchCache, attachmentCache, hist, everRemoved, insLog>>
        /\ UNCHANGED <<batchVars, configVars, twinVars, pendingVars, sendVars>>

AuthNext ==
    \/ Initialize
    \/ GetAccessToken
    \/ Tick

AuthSpec == Init /\ [][AuthNext]_vars

(***************************************************************************)
(* SendMessage.execute: create a draft, then send it if asked to           *)
(***************************************************************************)
DraftIds == {"draft1", "draft2"}

\* the inputs of execute; cc, bcc and sendImmediately may be left out
SendInputs ==
    LET base == {[to |-> to, subject |-> subject, body |-> "hello"] :
                    to \in {<<"a@x">>, <<"a@x", "b@x">>},
                    subject \in {"s1", "s2"}}
        withCc == base \cup {[f \in DOMAIN b \cup {"cc"} |->
                                 IF f = "cc" THEN cc ELSE b[f]] :
                                b \in base, cc \in {<< >>, <<"c@x">>}}
        withBcc == withCc \cup {[f \in DOMAIN b \cup {"bcc"} |->
                                    IF f = "bcc" THEN <<"d@x">> ELSE b[f]] :
                                   b \in withCc}
    IN withBcc \cup {[f \in DOMAIN b \cup {"sendImmediately"} |->
                         IF f = "sendImmediately" THEN s ELSE b[f]] :
                        b \in withBcc, s \in BOOLEAN}

\* const { ..., sendImmediately = false, ... } = input
sendImmediately_DefaultTrue(input) ==
    IF "sendImmediately" \in DOMAIN input THEN input.sendImmediately ELSE TRUE

sendImmediately(input) ==
    IF "sendImmediately" \in DOMAIN input THEN input.sendImmediately ELSE FALSE

buildRecipients(emails) ==
    [i \in 1..Len(emails) |-> [emailAddress |-> [address |-> emails[i]]]]

\* cc && cc.length > 0
Given(input, field) == field \in DOMAIN input /\ Len(input[field]) > 0

WithField(r, field, value) ==
    [f \in DOMAIN r \cup {field} |-> IF f = field THEN value ELSE r[f]]

messagePayload(input) ==
    LET p0 == [subject |-> input.subject,
               body |-> [contentType |-> "text", content |-> input.body],
               toRecipients |-> buildRecipients(input.to),
               importance |-> "normal"]
        p1 == IF Given(input, "cc")
              THEN WithField(p0, "ccRecipients", buildRecipients(input.cc)) ELSE p0
    IN IF Given(input, "bcc")
       THEN WithField(p1, "bccRecipients", buildRecipients(input.bcc)) ELSE p1

SendMessageResult(input, draft) ==
    LET r0 == [to |-> input.to]
        r1 == IF Given(input, "cc") THEN WithField(r0, "cc", input.cc) ELSE r0
        r2 == IF Given(input, "bcc") THEN WithField(r1, "bcc", input.bcc) ELSE r1
    IN [messageId |-> draft.id,
        status |-> IF sendImmediately(input) THEN "sent" ELSE "draft",
        subject |-> input.subject,
        recipients |-> r2]

SettleCall(calls, outcome) ==
    [calls EXCEPT ![Len(calls)] = WithField(@, "outcome", outcome)]

\* execute up to its first await: the payload goes to createDraftMessage
SendExecute ==
    \E input \in SendInputs :
        /\ sendPc \in {"idle", "returned", "threw"}
        /\ sendInput' = input
        /\ draftMessage' = << >>
        /\ sendResult' = << >>
        /\ graphCalls' = <<[call |-> "createDraftMessage",
                            payload |-> messagePayload(input),
                            outcome |-> "pending"]>>
        /\ sendPc' = "createDraftMessage"
        /\ UNCHANGED <<cacheVars, batchVars, configVars, twinVars, pendingVars, authVars>>

\* createDraftMessage resolves with the draft; execute sends it or returns
CreateDraftReturns ==
    \E id \in DraftIds :
        /\ sendPc = "createDraftMessage"
        /\ draftMessage' = [id |-> id]
        /\ IF sendImmediately(sendInput)
           THEN /\ graphCalls' = Append(SettleCall(graphCalls, "ok"),
                                        [call |-> "sendDraftMessage",
                                         id |-> id,
                                         outcome |-> "pending"])
                /\ sendPc' = "sendDraftMessage"
                /\ UNCHANGED sendResult
           ELSE /\ graphCalls' = SettleCall(graphCalls, "ok")
                /\ sendPc' = "returned"
                /\ sendResult' = [value |-> SendMessageResult(sendInput, [id |-> id])]
        /\ UNCHANGED sendInput
        /\ UNCHANGED <<cacheVars, batchVars, configVars, twinVars, pendingVars, authVars>>

\* the pending Graph call rejects; the catch block logs and rethrows
SendCallFails ==
    \E error \in {"GraphError", "AuthError"} :
        /\ sendPc \in {"createDraftMessage", "sendDraftMessage"}
        /\ graphCalls' = SettleCall(graphCalls, error)
        /\ sendPc' = "threw"
        /\ sendResult' = [thrown |-> error]
        /\ UNCHANGED <<sendInput, draftMessage>>
        /\ UNCHANGED <<cacheVars, batchVars, configVars, twinVars, pendingVars, authVars>>

\* sendDraftMessage resolves; execute returns the result
SendDraftReturns ==
    /\ sendPc = "sendDraftMessage"
    /\ graphCalls' = SettleCall(graphCalls, "ok")
    /\ sendPc' = "returned"
    /\ sendResult' = [value |-> SendMessageResult(sendInput, draftMessage)]
    /\ UNCHANGED <<sendInput, draftMessage>>
    /\ UNCHANGED <<cacheVars, batchVars, configVars, twinVars, pendingVars, authVars>>

SendNext ==
    \/ SendExecute
    \/ CreateDraftReturns
    \/ SendCallFails
    \/ SendDraftReturns

SendSpec == Init /\ [][SendNext]_vars

(***************************************************************************)
(* The references handed out by the two tools, for searches whose hits     *)
(* upstream did not order by relevance and for messages with more          *)
(* attachments than the cache has room for                                 *)
(***************************************************************************)
AttachmentLetters == <<"a", "b", "c", "d", "e", "f">>

HandoutSearchRuns ==
    SearchRuns \cup {[suffix |-> <<"z">>, hits |-> <<Hit3, Hit2, Hit1>>]}

HandoutRuns ==
    AttachmentRuns
    \cup {[messageId |-> <<"n">>, includeContent |-> TRUE,
           attachments |-> [i \in 1..(MaxEntries + 1) |->
                               Attachment(<<AttachmentLetters[i]>>, "QUFB")]]}

SearchContentHandout ==
    \E run \in HandoutSearchRuns :
        /\ Len(attachmentCache) = 0
        /\ SearchContentStep(run)
        /\ UNCHANGED pending

GetAttachmentsHandout ==
    \E run \in HandoutRuns :
        /\ Len(searchCache) = 0
        /\ GetAttachmentsStep(run)
        /\ UNCHANGED pending

HandoutNext ==
    \/ SearchContentHandout
    \/ GetAttachmentsHandout
    \/ Get
    \/ GetAttachment
    \/ Tick

HandoutSpec == Init /\ [][HandoutNext]_vars

(***************************************************************************)
(* The sweep timer: setInterval in the constructor of ResultCache calls    *)
(* cleanupExpired again and again, and nothing clears the interval         *)
(***************************************************************************)
\* the interval callback, recorded with the counters of its run
SweepTimer ==
    /\ now \in 0..MaxTime
    /\ CleanupExpiredStep(TRUE)

SweepNext ==
    \/ Tick
    \/ SearchContentExecute
    \/ GetAttachmentsExecute
    \/ Get
    \/ GetAttachment
    \/ SweepTimer

\* the timer of the event loop fires as long as the process runs
SweepSpec == Init /\ [][SweepNext]_vars /\ WF_vars(SweepTimer)

(***************************************************************************)
(* Attachments whose message id or attachment id contains the separator    *)
(* of the attachment handle                                                *)
(***************************************************************************)
SeparatorRuns ==
    {[messageId |-> <<"m">>, includeContent |-> TRUE,
      attachments |-> <<Attachment(<<"a", ":", "b">>, "QUFB")>>],
     [messageId |-> <<"m", ":", "a">>, includeContent |-> TRUE,
      attachments |-> <<Attachment(<<"b">>, "QkJC")>>],
     [messageId |-> <<"m">>, includeContent |-> TRUE,
      attachments |-> <<Attachment(<<"a">>, "Q0ND"), Attachment(<<"b">>, "RERE")>>],
     [messageId |-> <<"n">>, includeContent |-> TRUE,
      attachments |-> <<Attachment(<<"a">>, "RUVF")>>]}

GetAttachmentsSeparator ==
    \E run \in SeparatorRuns :
        /\ Len(searchCache) = 0
        /\ GetAttachmentsStep(run)
        /\ UNCHANGED pending

SeparatorNext ==
    \/ GetAttachmentsSeparator
    \/ GetAttachment
    \/ ClearAttachment
    \/ Tick

SeparatorSpec == Init /\ [][SeparatorNext]_vars

(***************************************************************************)
(* Properties of the cache and of the resource handlers                    *)
(***************************************************************************)
CacheOf(c) == IF c = "search" THEN searchCache ELSE attachmentCache

LastN(q, n) == IF Len(q) <= n THEN q ELSE SubSeq(q, Len(q) - n + 1, Len(q))

Range(q) == {q[i] : i \in 1..Len(q)}

IsAttachmentHandle(h) == \E i \in 1..Len(h) : h[i] = ":"

\* the entry put under h is younger than or as old as its ttl
LiveByHistory(h) == h \in DOMAIN hist /\ now - hist[h].putTime <= TtlMs

\* C1: capacity invariant.  Neither map ever holds more than maxEntries
\* entries, and after a run of puts with pairwise distinct handles into the
\* empty cache (nothing expiring or cleared in between) the listing
\* consists of the last maxEntries handles of the run, in that order, so
\* that after maxEntries + k puts the k oldest handles are absent.
C1_Capacity ==
    /\ Len(searchCache) <= MaxEntries
    /\ Len(attachmentCache) <= MaxEntries
    /\ insLog.search.ok =>
           listSearchIds(searchCache) = LastN(insLog.search.log, MaxEntries)
    /\ insLog.attachment.ok =>
           listAttachmentIds(attachmentCache) = LastN(insLog.attachment.log, MaxEntries)

\* a run of maxEntries + 1 distinct puts has just ended with an eviction
C1_Witness ==
    /\ last.op \in {"search_content", "get_attachments"}
    /\ insLog[last.cache].ok
    /\ Len(insLog[last.cache].log) = MaxEntries + 1
    /\ insLog[last.cache].log[1] \notin MapKeySet(CacheOf(last.cache))

\* C2: TTL invariant.  An entry put at time T and not evicted or cleared
\* since is returned by get, getResult and getAttachment while
\* now - T <= ttlMs, and is a miss once now - T > ttlMs; that miss leaves
\* the map without the entry.
C2_Ttl ==
    /\ \A h \in DOMAIN hist :
          IF IsAttachmentHandle(h)
          THEN LET r == getAttachment(attachmentCache, now, h)
               IN /\ r.hit <=> (now - hist[h].putTime <= TtlMs)
                  /\ ~r.hit => ~MapHas(r.map, h)
          ELSE LET r == get(searchCache, now, h)
                   g == getResult(searchCache, now, h, 0)
               IN /\ r.hit <=> (now - hist[h].putTime <= TtlMs)
                  /\ g.hit <=> (now - hist[h].putTime <= TtlMs)
                  /\ ~r.hit => ~MapHas(r.map, h)
                  /\ ~g.hit => ~MapHas(g.map, h)
    /\ last.op \in {"get", "getAttachment"} =>
          /\ last.hit <=> LiveByHistory(last.handle)
          /\ ~last.hit =>
                last.handle \notin MapKeySet(searchCache) \cup MapKeySet(attachmentCache)

\* a lookup has just missed an entry that was still in the map: lazy expiry
C2_Witness ==
    /\ last.op \in {"get", "getAttachment"}
    /\ last.present
    /\ ~last.hit

\* C3: eviction follows insertion, and reads do not matter.  A put that
\* finds its cache full evicts exactly one entry, one whose insertion time
\* is least among the entries present (the first of the run when the
\* entries were put one after the other); a lookup that hits, and a
\* resource read that returns contents, leave both maps as they were.
C3_Step ==
    /\ (/\ last'.op \in {"search_content", "get_attachments"}
        /\ Len(last'.puts) = 1
        /\ last'.puts[1].full)
       => LET c == last'.cache
              gone == last'.puts[1].removed
          IN /\ Cardinality(gone) = 1
             /\ \A e \in gone, f \in MapKeySet(CacheOf(c)) :
                    hist[e].putTime <= hist[f].putTime
             /\ insLog[c].ok =>
                    gone = {insLog[c].log[Len(insLog[c].log) - MaxEntries + 1]}
    /\ (\/ last'.op \in {"get", "getAttachment"} /\ last'.hit
        \/ last'.op = "ReadResource" /\ last'.result.outcome = "contents")
       => /\ searchCache' = searchCache
          /\ attachmentCache' = attachmentCache

StoredHits(h) ==
    (CHOOSE run \in SearchRuns : run.suffix = <<h[Len(h)]>>).hits

\* the full view of a stored record
FullView(record) ==
    [url |-> record.webUrl, resourceType |-> record.resourceType,
     sensitivityLabel |-> record.sensitivityLabel,
     metadata |-> record.resourceMetadata,
     extracts |-> record.extracts, totalExtracts |-> Len(record.extracts)]

\* C5: reference round trip.  For every live search entry with handle H and
\* n records, reading copilot://search-H/result-i returns the full view of
\* the i-th stored record when 0 <= i < n, and is the not-found outcome when
\* i >= n.
C5_RoundTrip ==
    \A h \in MapKeySet(searchCache) :
        LiveByHistory(h) =>
            \A i \in 0..(Len(StoredHits(h)) + 1) :
                LET r == readResource(searchCache, attachmentCache, now,
                                      CopilotUri(h, NumToString(i)))
                IN IF i < Len(StoredHits(h))
                   THEN /\ r.outcome = "contents"
                        /\ r.text = FullView(StoredHits(h)[i + 1])
                   ELSE r.outcome = "Resource not found (may have expired from cache)"

\* result-1 of a live search with three records has just been read
C5_Witness ==
    /\ last.op = "ReadResource"
    /\ last.result.outcome = "contents"
    /\ \E h \in MapKeySet(searchCache) :
          /\ last.uri = CopilotUri(h, <<"1">>)
          /\ Len(StoredHits(h)) = 3
          /\ last.result.text.url = Hit2.webUrl

\* C6: the listings hold exactly the handles a get would hit at the same
\* instant.
C6_ListOnlyLive ==
    /\ \A h \in Range(listSearchIds(searchCache)) : get(searchCache, now, h).hit
    /\ \A h \in Range(listAttachmentIds(attachmentCache)) :
          getAttachment(attachmentCache, now, h).hit

\* C7 as stated: a handle whose entry was removed is a miss ever after.
C7_RemovedStaysAbsent ==
    \A h \in everRemoved : ~getAttachment(attachmentCache, now, h).hit

PutHandles(l) ==
    IF l.op \in {"search_content", "get_attachments"}
    THEN {l.puts[i].handle : i \in 1..Len(l.puts)}
    ELSE {}

\* C7, amended: a handle that is not in its map is a miss, and it stays out
\* of the map until a put stores an entry under that same handle again; a
\* clear leaves the handle out of the map.
C7_Step ==
    /\ \A h \in (MapKeySet(searchCache') \ MapKeySet(searchCache))
                \cup (MapKeySet(attachmentCache') \ MapKeySet(attachmentCache)) :
          h \in PutHandles(last')
    /\ \A h \in PutHandles(last') :
          h \in MapKeySet(searchCache') \cup MapKeySet(attachmentCache')
    /\ last'.op \in {"clear", "clearAttachment"} =>
          /\ ~get(searchCache', now', last'.handle).hit
          /\ ~getAttachment(attachmentCache', now', last'.handle).hit

C7_AbsentUntilPut == [][C7_Step]_vars

\* the watched attachment handle was removed and has been cached again
C7_Witness ==
    /\ <<"m", ":", "a">> \in everRemoved
    /\ getAttachment(attachmentCache, now, <<"m", ":", "a">>).hit

\* C8: a URI of neither reference format fails as 'Invalid resource URI'; a
\* well-formed one never does, and fails as 'not found (may have expired
\* from cache)' exactly when its handle is absent or expired or its index
\* is out of range.
C8_TwoFailures ==
    /\ \A uri \in MalformedUris :
          readResource(searchCache, attachmentCache, now, uri).outcome
              = "Invalid resource URI"
    /\ \A h \in SearchHandles, d \in IndexStrings :
          LET r == readResource(searchCache, attachmentCache, now, CopilotUri(h, d))
              found == LiveByHistory(h) /\ ParseInt(d) < Len(StoredHits(h))
          IN r.outcome = IF found THEN "contents"
                         ELSE "Resource not found (may have expired from cache)"
    /\ \A h \in AttachmentHandles :
          LET r == readResource(searchCache, attachmentCache, now, AttachmentUri(h))
          IN r.outcome = IF LiveByHistory(h) THEN "contents"
                         ELSE "Attachment not found (may have expired from cache)"
    /\ last.op = "ReadResource" =>
          (last.result.outcome = "Invalid resource URI" <=> last.uri \in MalformedUris)

\* a malformed URI has just been refused
C8_Witness ==
    /\ last.op = "ReadResource"
    /\ last.uri \in MalformedUris
    /\ last.result.outcome = "Invalid resource URI"

(***************************************************************************)
(* Claims about the batch dispatcher                                       *)
(***************************************************************************)
\* the number of requests of chunk i, from the request list alone
ChunkSize(i) ==
    IF i * BatchLimit <= Len(batchRequests) THEN BatchLimit
    ELSE Len(batchRequests) - (i - 1) * BatchLimit

NumChunks == (Len(batchRequests) + BatchLimit - 1) \div BatchLimit

\* what executeBatch owes for chunk i, given how its upstream call ended
ExpectedOfChunk(i) ==
    IF chunkLog[i].outcome = "ok" THEN chunkLog[i].responses
    ELSE [k \in 1..ChunkSize(i) |->
             [id |-> batchRequests[(i - 1) * BatchLimit + k].id,
              status |-> 500,
              body |-> [error |-> [message |->
                           <<"Batch request failed:", chunkLog[i].message>>]]]]

RECURSIVE ExpectedUpTo(_)
ExpectedUpTo(i) ==
    IF i = 0 THEN << >> ELSE ExpectedUpTo(i - 1) \o ExpectedOfChunk(i)

\* C4 as stated: the result map of execute has exactly M keys for a list
\* of M entities.
C4_ExactlyMKeys ==
    pc = "done" => Cardinality(DOMAIN emailSearchResult) = Len(entities)

\* C9: a chunk whose upstream call failed contributes one status-500
\* response carrying the failure message for each of its requests, the
\* responses of the chunks that succeeded are kept as received, every
\* chunk is issued, and executeBatch returns.
C9_ChunkFailureRecovered ==
    /\ Len(chunkLog) <= NumChunks
    /\ allResponses = ExpectedUpTo(Len(chunkLog))
    /\ pc = "request" => chunkIdx = Len(chunkLog) + 1
    /\ pc = "done" => Len(chunkLog) = NumChunks

\* executeBatch has returned after its first chunk failed and a later one
\* was answered
C9_Witness ==
    /\ pc = "done"
    /\ Len(chunkLog) = 2
    /\ chunkLog[1].outcome = "failed"
    /\ chunkLog[2].outcome = "ok"
    /\ Len(chunkLog[2].responses) > 0
    /\ Len(allResponses) > BatchLimit

\* C10 as stated: the response list returned by executeBatch holds every
\* request id exactly once.
C10_EveryIdOnce ==
    pc = "done" =>
        \A i \in 1..Len(batchRequests) :
            Cardinality({k \in 1..Len(allResponses) :
                            allResponses[k].id = batchRequests[i].id}) = 1

RECURSIVE Flatten(_)
Flatten(qs) == IF Len(qs) = 0 THEN << >> ELSE Head(qs) \o Flatten(Tail(qs))

\* C12: M requests are split into ceil(M / 20) chunks that concatenate to
\* the request list; every chunk holds between 1 and 20 requests and only
\* the last may hold fewer than 20; for M = 0 nothing is posted and the
\* response list is empty.
C12_Chunking ==
    LET M == Len(batchRequests)
    IN /\ Len(Chunks) = (M + BatchLimit - 1) \div BatchLimit
       /\ Flatten(Chunks) = batchRequests
       /\ \A i \in 1..Len(Chunks) :
             /\ Len(Chunks[i]) >= 1
             /\ Len(Chunks[i]) <= BatchLimit
             /\ i < Len(Chunks) => Len(Chunks[i]) = BatchLimit
       /\ Len(chunkLog) <= Len(Chunks)
       /\ M = 0 => inFlight = {} /\ chunkLog = << >> /\ allResponses = << >>

\* executeBatch has returned for a list that fills one chunk and part of a
\* second one
C12_Witness ==
    /\ pc = "done"
    /\ Len(batchRequests) > BatchLimit
    /\ Len(batchRequests) % BatchLimit # 0
    /\ Len(chunkLog) = 2

\* the first response that upstream gave for request i in the answer to
\* its chunk
AnswerInChunk(i) ==
    LET responses == chunkLog[((i - 1) \div BatchLimit) + 1].responses
        k == CHOOSE k \in 1..Len(responses) :
                 /\ responses[k].id = batchRequests[i].id
                 /\ \A j \in 1..(k - 1) : responses[j].id # batchRequests[i].id
    IN responses[k]

AnsweredInChunk(i) ==
    LET entry == chunkLog[((i - 1) \div BatchLimit) + 1]
    IN /\ entry.outcome = "ok"
       /\ \E k \in 1..Len(entry.responses) :
             entry.responses[k].id = batchRequests[i].id

\* the messages that upstream returned in the body of a 200 response
MessagesOf(body) == IF "value" \in DOMAIN body THEN body.value ELSE << >>

\* the outcome `out` is the one owed to a query answered by r
OutcomeOf(r, out) ==
    IF r.status = 200
    THEN /\ "error" \notin DOMAIN out
         /\ out.matchCount = Len(MessagesOf(r.body))
         /\ out.emails = limitResults(sortByDate(processEmails(MessagesOf(r.body))),
                                      maxResultsPerEntity)
    ELSE /\ out.matchCount = 0
         /\ out.emails = << >>
         /\ "error" \in DOMAIN out
         /\ out.error[2] = r.status

\* C13 as stated: every query that upstream answered in a successful chunk
\* call has, under its entity, the outcome of its own response: the
\* summaries for a 200, and matchCount 0, no emails and an error text with
\* the status code otherwise.
C13_OwnStatus ==
    pc = "done" =>
        \A i \in 1..Len(entities) :
            AnsweredInChunk(i) =>
                /\ entities[i] \in DOMAIN emailSearchResult
                /\ OutcomeOf(AnswerInChunk(i), emailSearchResult[entities[i]])

(***************************************************************************)
(* Claims about expiry, the sweep and the listing                          *)
(***************************************************************************)
\* C14: at every instant the sweep keeps exactly the entries that a get
\* would return: a key survives cleanupExpired if and only if get /
\* getAttachment on it is a hit at the same time.
C14_SweepAgreesWithGet ==
    /\ \A k \in MapKeySet(searchCache) :
          MapHas(cleanupExpired(searchCache, now), k)
              <=> get(searchCache, now, k).hit
    /\ \A k \in MapKeySet(attachmentCache) :
          MapHas(cleanupExpired(attachmentCache, now), k)
              <=> getAttachment(attachmentCache, now, k).hit

\* the sweep has just run over an entry of age exactly ttlMs and one can
\* still get it
C14_Witness ==
    /\ last.op = "cleanupExpired"
    /\ \E i \in 1..Len(attachmentCache) :
          /\ now - attachmentCache[i].v.timestamp = TtlMs
          /\ getAttachment(attachmentCache, now, attachmentCache[i].k).hit

\* C15 as stated: a lookup returns the same from the cache whose sweep
\* runs at arbitrary points as from the cache that is never swept.
C15_SweepUnobservable ==
    last.op = "getAttachment" /\ "swept" \in DOMAIN last
        => last.swept = last.unswept

\* the positions of the descriptors with URI u
DescriptorsAt(resources, u) == {i \in 1..Len(resources) : resources[i].uri = u}

\* C16: ListResources returns exactly one descriptor per result index of
\* every live search entry and one per live attachment, each with its URI,
\* name, description and content type, and no descriptor of an entry older
\* than ttlMs.
C16_ListsLiveOnly ==
    last.op = "ListResources" =>
        LET rs == last.resources
        IN /\ \A h \in DOMAIN hist :
                 LiveByHistory(h) /\ ~IsAttachmentHandle(h) =>
                     \A j \in 1..Len(StoredHits(h)) :
                         LET at == DescriptorsAt(rs, CopilotUri(h, NumToString(j - 1)))
                         IN /\ Cardinality(at) = 1
                            /\ \A i \in at :
                                  /\ rs[i].name = <<"Search result", j, "from", h>>
                                  /\ rs[i].description =
                                         <<"Full text extracts for",
                                           StoredHits(h)[j].webUrl>>
                                  /\ rs[i].mimeType = "application/json"
           /\ \A h \in DOMAIN hist :
                 LiveByHistory(h) /\ IsAttachmentHandle(h) =>
                     LET at == DescriptorsAt(rs, AttachmentUri(h))
                         stored == MapGet(attachmentCache, h).attachment
                     IN /\ Cardinality(at) = 1
                        /\ \A i \in at :
                              /\ rs[i].name = stored.name
                              /\ rs[i].description[2] = stored.name
                              /\ rs[i].mimeType = stored.contentType
           /\ \A i \in 1..Len(rs) :
                 \E h \in DOMAIN hist :
                     /\ LiveByHistory(h)
                     /\ IF IsAttachmentHandle(h)
                        THEN rs[i].uri = AttachmentUri(h)
                        ELSE \E j \in 1..Len(StoredHits(h)) :
                                 rs[i].uri = CopilotUri(h, NumToString(j - 1))

\* the three results of a search of age exactly ttlMs have just been listed
C16_Witness ==
    /\ last.op = "ListResources"
    /\ Len(last.resources) = 3
    /\ \E h \in DOMAIN hist :
          /\ now - hist[h].putTime = TtlMs
          /\ last.resources[3].uri = CopilotUri(h, <<"2">>)

\* C17 as stated: no cache constructed with maxEntries <= 0 or with an
\* invalid ttlMs ever holds an entry, the constructor having failed.
C17_MisconfigurationFatal ==
    Len(searchCache) > 0 \/ Len(attachmentCache) > 0
        => maxEntries >= 1 /\ ttlMs >= 0

(***************************************************************************)
(* Claims about interleaved tool calls and about the handles               *)
(***************************************************************************)
\* C18: re-entrancy safety.  Whatever the interleaving of suspended and
\* resumed search_content and get_attachments calls, lookups made by
\* resource reads, sweeps and clock ticks, neither map ever holds more than
\* maxEntries entries, every put removes at most one entry, and among the
\* puts of one tool call no entry is removed twice unless it was put again
\* in between.
C18_ReentrancySafe ==
    /\ maxEntries >= 1
    /\ Len(searchCache) <= maxEntries
    /\ Len(attachmentCache) <= maxEntries
    /\ last.op \in {"search_content", "get_attachments"} =>
           /\ \A i \in 1..Len(last.puts) :
                  Cardinality(last.puts[i].removed) <= 1
           /\ \A i, j \in 1..Len(last.puts) :
                  i < j =>
                      \A k \in last.puts[i].removed \cap last.puts[j].removed :
                          \E p \in i..(j - 1) : last.puts[p].handle = k

\* a search call has resumed and put into the full cache, evicting one
\* entry, while another tool call is still suspended at its await
C18_Witness ==
    /\ last.op = "search_content"
    /\ last.puts[1].full
    /\ Cardinality(last.puts[1].removed) = 1
    /\ Len(searchCache) = maxEntries
    /\ PendingTotal >= 1

\* C19 as stated: search handles are pairwise distinct, so the handle that
\* a search_content call generates is never the handle of a live entry of
\* the search cache, and no put replaces the entry of another search.
C19_HandlesDistinct ==
    [][last'.op = "search_content" /\ last' # last =>
           \A h \in MapKeySet(searchCache) :
               ~Expired(now, MapGet(searchCache, h)) => last'.puts[1].handle # h]_vars

EntriesUnder(m, h) == {i \in 1..Len(m) : m[i].k = h}

\* C20: idempotent attachment handles.  Every setAttachment of a
\* get_attachments call returns the handle messageId:attachmentId, the value
\* of generateAttachmentId for the pair, also when the pair was stored
\* before; the map never holds two entries under that handle, and after the
\* last put of the call it holds exactly one, from which getAttachment
\* returns the payload of that call.
C20_IdempotentHandle ==
    last.op = "get_attachments" =>
        \A i \in 1..Len(last.puts) :
            LET p == last.puts[i]
            IN /\ p.handle = p.messageId \o <<":">> \o p.attachmentId
               /\ p.handle = generateAttachmentId(p.messageId, p.attachmentId)
               /\ Cardinality(EntriesUnder(attachmentCache, p.handle)) <= 1
               /\ i = Len(last.puts) =>
                      /\ Cardinality(EntriesUnder(attachmentCache, p.handle)) = 1
                      /\ getAttachment(attachmentCache, now, p.handle).hit
                      /\ getAttachment(attachmentCache, now, p.handle).value
                             = p.attachment

\* the pair (m, a) had an entry and has just been stored again, under the
\* same handle
C20_Witness ==
    /\ last.op = "get_attachments"
    /\ Len(last.puts) = 1
    /\ last.puts[1].replaced
    /\ last.puts[1].handle = <<"m", ":", "a">>
    /\ last.puts[1].attachment.contentBytes = "QUFB"
    /\ \E h \in DOMAIN hist : h = <<"m", ":", "a">> /\ hist[h].putTime = now

(***************************************************************************)
(* Claims about the search preview                                         *)
(***************************************************************************)
IsWhitespace(c) == c \in {" ", "\t"}

\* the texts of the extracts with the highest relevance score
TopTexts(extracts) ==
    {extracts[i].text : i \in {k \in 1..Len(extracts) :
        \A j \in 1..Len(extracts) :
            extracts[j].relevanceScore <= extracts[k].relevanceScore}}

\* e is text cut after its first n characters, with the ellipsis appended
IsCutAt(e, text, n) ==
    /\ Len(e) = n + 3
    /\ SubSeq(e, 1, n) = SubSeq(text, 1, n)
    /\ SubSeq(e, n + 1, n + 3) = <<".", ".", ".">>

\* C21 as stated: the excerpt comes from an extract of highest relevance;
\* a text of at most maxChars characters is returned unchanged; a longer one
\* is cut in front of the last whitespace character among its first
\* maxChars characters and gets the ellipsis, and it is cut at maxChars,
\* possibly inside a word, only when these characters hold no whitespace;
\* no extracts give the empty excerpt.
C21_Excerpt ==
    last.op = "createBriefExcerpt" =>
        LET e == last.briefExcerpt
        IN IF Len(last.extracts) = 0 THEN e = << >>
           ELSE \E text \in TopTexts(last.extracts) :
                   LET ws == {i \in 1..Len(text) :
                                 i <= maxChars /\ IsWhitespace(text[i])}
                   IN IF Len(text) <= maxChars THEN e = text
                      ELSE /\ Len(e) <= maxChars + 3
                           /\ IF ws = {} THEN IsCutAt(e, text, maxChars)
                              ELSE \E i \in ws :
                                      /\ \A j \in ws : j <= i
                                      /\ IsCutAt(e, text, i - 1)

(***************************************************************************)
(* Claims about errors of the Graph client                                 *)
(***************************************************************************)
\* C22 as stated: an AuthError thrown by authenticator.getAccessToken while
\* a chunk is being sent leaves executeBatch as it is, so it never ends in
\* the catch block that turns a failed chunk into synthesized responses,
\* and execute builds no result from such a chunk.
C22_AuthErrorSurfaced ==
    \A i \in 1..Len(chunkLog) :
        ~(chunkLog[i].outcome = "failed" /\ chunkLog[i].message = "AuthError")

(***************************************************************************)
(* Claims about removal and about the independence of the two maps         *)
(***************************************************************************)
Without(m, h) == SelectSeq(m, LAMBDA e : e.k # h)

\* C23: removal is idempotent and absence is a value.  clear and
\* clearAttachment return true exactly when the map held the handle, remove
\* that entry only, and called again with the same handle return false and
\* change nothing; get, getResult (through a resource read) and
\* getAttachment on a handle that the map does not hold report a miss and
\* leave both maps as they were.
C23_RemovalIdempotent ==
    [][LET h == last'.handle
       IN /\ last'.op = "clear" =>
                /\ last'.result = MapHas(searchCache, h)
                /\ searchCache' = Without(searchCache, h)
                /\ ~MapHas(searchCache', h)
                /\ attachmentCache' = attachmentCache
                /\ (last.op = "clear" /\ last.handle = h) =>
                       ~last'.result /\ searchCache' = searchCache
          /\ last'.op = "clearAttachment" =>
                /\ last'.result = MapHas(attachmentCache, h)
                /\ attachmentCache' = Without(attachmentCache, h)
                /\ ~MapHas(attachmentCache', h)
                /\ searchCache' = searchCache
                /\ (last.op = "clearAttachment" /\ last.handle = h) =>
                       ~last'.result /\ attachmentCache' = attachmentCache
          /\ (last'.op = "get" /\ ~MapHas(searchCache, h)) =>
                /\ ~last'.hit
                /\ searchCache' = searchCache
                /\ attachmentCache' = attachmentCache
          /\ (last'.op = "getAttachment" /\ ~MapHas(attachmentCache, h)) =>
                /\ ~last'.hit
                /\ searchCache' = searchCache
                /\ attachmentCache' = attachmentCache
          /\ (/\ last'.op = "ReadResource"
              /\ \E d \in IndexStrings : last'.uri = CopilotUri(AbsentSearchId, d)) =>
                /\ last'.result.outcome
                       = "Resource not found (may have expired from cache)"
                /\ searchCache' = searchCache
                /\ attachmentCache' = attachmentCache]_vars

\* an entry has been cleared and the same clear, made again, has returned
\* false, the other entry of the map being still there
C23_Witness ==
    /\ last.op = "clear"
    /\ last.handle # AbsentSearchId
    /\ ~last.result
    /\ Len(searchCache) > 0

\* C24: the two maps are independent.  A search put, get, clear or a read
\* of a copilot resource leaves the attachment map as it was; an attachment
\* put, getAttachment, clearAttachment or a read of an attachment resource
\* leaves the search map as it was; a put into a map with fewer than
\* maxEntries entries removes nothing whatever the other map holds, and
\* each map stays within maxEntries.
C24_Independent ==
    [][/\ last'.op \in {"search_content", "get", "clear"} =>
              attachmentCache' = attachmentCache
       /\ last'.op \in {"get_attachments", "getAttachment", "clearAttachment"} =>
              searchCache' = searchCache
       /\ last'.op = "ReadResource" =>
              /\ copilotMatch(last'.uri).matched => attachmentCache' = attachmentCache
              /\ ~copilotMatch(last'.uri).matched => searchCache' = searchCache
       /\ last'.op = "search_content" =>
              /\ last'.puts[1].full = (Len(searchCache) >= maxEntries)
              /\ ~last'.puts[1].full => last'.puts[1].removed = {}
       /\ (last'.op = "get_attachments" /\ Len(last'.puts) > 0) =>
              /\ last'.puts[1].full = (Len(attachmentCache) >= maxEntries)
              /\ ~last'.puts[1].full => last'.puts[1].removed = {}
       /\ Len(searchCache') <= maxEntries
       /\ Len(attachmentCache') <= maxEntries]_vars

\* both maps hold maxEntries entries and the search put that has just
\* ended evicted a search entry
C24_Witness ==
    /\ Len(searchCache) = maxEntries
    /\ Len(attachmentCache) = maxEntries
    /\ last.op = "search_content"
    /\ last.puts[1].removed # {}

\* the executeRequest call that statusLog describes is still running, and
\* its latest answer has been followed by another attempt
Retrying == pc = "request" /\ attempt > 0 /\ attempt = Len(statusLog)

Unauthorized == {i \in 1..Len(statusLog) : statusLog[i] = 401}

\* C25 as stated: the first 401 that an executeRequest call is answered
\* with is followed by a token refresh and, the refresh having succeeded,
\* by one more attempt of the request; a later 401 is followed by none and
\* ends the call with an error.
C25_RetryOn401 ==
    \A i \in Unauthorized :
        IF \A j \in Unauthorized : i <= j
        THEN \/ i < Len(statusLog)
             \/ Retrying
             \/ /\ Len(chunkLog) > 0
                /\ chunkLog[Len(chunkLog)].outcome = "failed"
                /\ chunkLog[Len(chunkLog)].message = "AuthError"
        ELSE /\ i = Len(statusLog)
             /\ ~Retrying
             /\ Len(chunkLog) > 0
             /\ chunkLog[Len(chunkLog)].outcome = "failed"

(***************************************************************************)
(* Claims about the authenticator                                          *)
(***************************************************************************)
\* C26 as stated: the access token stays in memory; neither file on disk
\* ever holds an access token.
C26_AccessTokenInMemoryOnly ==
    /\ \A i \in 1..Len(tokenFile) : "accessToken" \notin DOMAIN tokenFile[i]
    /\ \A i \in 1..Len(msalCache) : "accessToken" \notin DOMAIN msalCache[i]

(***************************************************************************)
(* Claims about the per-entity results of the batch search                 *)
(***************************************************************************)
Min(a, b) == IF a < b THEN a ELSE b

\* out is the budgeted summary of the messages of one 200 response
WithinBudget(messages, out) ==
    /\ "error" \notin DOMAIN out
    /\ out.matchCount = Len(messages)
    /\ Len(out.emails) = Min(maxResultsPerEntity, Len(messages))
    /\ \A a, b \in 1..Len(out.emails) :
           a < b => out.emails[a].receivedDateTime >= out.emails[b].receivedDateTime
    /\ \E kept \in SUBSET (1..Len(messages)) :
           /\ Cardinality(kept) = Len(out.emails)
           /\ {out.emails[a].messageId : a \in 1..Len(out.emails)}
                  = {messages[k].id : k \in kept}
           /\ \A k \in kept, d \in (1..Len(messages)) \ kept :
                  messages[k].receivedDateTime >= messages[d].receivedDateTime
    /\ Len(messages) > 0 =>
           /\ \E k \in 1..Len(messages) :
                  out.latestDate = messages[k].receivedDateTime
           /\ \A k \in 1..Len(messages) :
                  out.latestDate >= messages[k].receivedDateTime

\* C27 as stated: every query that upstream answered with status 200 has,
\* under its entity, the emails of its response sorted newest first and cut
\* to maxResultsPerEntity, the greatest receivedDateTime of the response as
\* latestDate, and the number of returned messages as matchCount.
C27_ResponseBudget ==
    pc = "done" =>
        \A i \in 1..Len(entities) :
            (AnsweredInChunk(i) /\ AnswerInChunk(i).status = 200) =>
                /\ entities[i] \in DOMAIN emailSearchResult
                /\ WithinBudget(MessagesOf(AnswerInChunk(i).body),
                                emailSearchResult[entities[i]])

\* C28 as stated: a query that upstream answered with status 200 and an
\* empty or missing list of messages has its entity in the result with
\* matchCount 0, no emails and no error field.
C28_ZeroMatchesExplicit ==
    pc = "done" =>
        \A i \in 1..Len(entities) :
            (/\ AnsweredInChunk(i)
             /\ AnswerInChunk(i).status = 200
             /\ MessagesOf(AnswerInChunk(i).body) = << >>) =>
                /\ entities[i] \in DOMAIN emailSearchResult
                /\ emailSearchResult[entities[i]].matchCount = 0
                /\ emailSearchResult[entities[i]].emails = << >>
                /\ "error" \notin DOMAIN emailSearchResult[entities[i]]

(***************************************************************************)
(* Claims about SendMessage                                                *)
(***************************************************************************)
AskedToSend == "sendImmediately" \in DOMAIN sendInput /\ sendInput.sendImmediately

Failed(k) == graphCalls[k].outcome \notin {"pending", "ok"}

\* C29: the first Graph call of execute is createDraftMessage;
\* sendDraftMessage is called only when sendImmediately is true, only after
\* createDraftMessage succeeded and with the id it returned; the returned
\* status is 'draft' when sendImmediately is false or left out and 'sent'
\* only after sendDraftMessage succeeded; when a call fails its error is
\* rethrown and no result is returned.
C29_SendProtocol ==
    sendPc # "idle" =>
        /\ Len(graphCalls) \in {1, 2}
        /\ graphCalls[1].call = "createDraftMessage"
        /\ Len(graphCalls) = 2 =>
               /\ graphCalls[2].call = "sendDraftMessage"
               /\ AskedToSend
               /\ graphCalls[1].outcome = "ok"
               /\ draftMessage # << >>
               /\ graphCalls[2].id = draftMessage.id
        /\ sendPc = "returned" =>
               /\ "value" \in DOMAIN sendResult
               /\ \A k \in 1..Len(graphCalls) : graphCalls[k].outcome = "ok"
               /\ sendResult.value.messageId = draftMessage.id
               /\ ~AskedToSend => /\ sendResult.value.status = "draft"
                                  /\ Len(graphCalls) = 1
               /\ sendResult.value.status = "sent" =>
                      /\ Len(graphCalls) = 2
                      /\ graphCalls[2].outcome = "ok"
               /\ AskedToSend => sendResult.value.status = "sent"
        /\ (\E k \in 1..Len(graphCalls) : Failed(k)) =>
               /\ sendPc = "threw"
               /\ DOMAIN sendResult = {"thrown"}
               /\ sendResult.thrown = graphCalls[Len(graphCalls)].outcome
        /\ sendPc = "threw" => Failed(Len(graphCalls))

\* a message was sent at once; a run without sendImmediately returned a
\* draft; a run failed in sendDraftMessage after the draft was created
C29_Witness ==
    /\ sendPc = "returned"
    /\ AskedToSend
    /\ Len(graphCalls) = 2
    /\ sendResult.value.status = "sent"

C29_WitnessDefaultDraft ==
    /\ sendPc = "returned"
    /\ "sendImmediately" \notin DOMAIN sendInput
    /\ sendResult.value.status = "draft"

C29_WitnessSendFails ==
    /\ sendPc = "threw"
    /\ Len(graphCalls) = 2
    /\ draftMessage # << >>

(***************************************************************************)
(* Claims about a put under a handle that is already present               *)
(***************************************************************************)
LiveKeys(m, t) == {k \in MapKeySet(m) : ~Expired(t, MapGet(m, k))}

\* C30 as stated: a run of get_attachments that stores one attachment under
\* a handle that is already in the map removes no other live entry and
\* leaves the size of the map as it was, also when the map is full.
C30_Step ==
    (/\ last'.op = "get_attachments"
     /\ Len(last'.puts) = 1
     /\ last'.puts[1].replaced) =>
        /\ LiveKeys(attachmentCache, now) \ {last'.puts[1].handle}
               \subseteq MapKeySet(attachmentCache')
        /\ Len(attachmentCache') = Len(attachmentCache)

C30_ReplaceInPlace == [][C30_Step]_vars

(***************************************************************************)
(* Claims about the references in the responses of the tools               *)
(***************************************************************************)
ReadNow(uri) == readResource(searchCache, attachmentCache, now, uri)

\* C31 as stated: right after get_attachments or search_content has
\* returned, every resourceUri of its response is read by ReadResource as
\* the content cached for it.
C31_HandedOutResolvable ==
    /\ last.op = "get_attachments" =>
           \A i \in 1..Len(last.puts) :
               /\ ReadNow(AttachmentUri(last.puts[i].handle)).outcome = "contents"
               /\ ReadNow(AttachmentUri(last.puts[i].handle)).blob
                      = last.puts[i].attachment.contentBytes
    /\ last.op = "get_attachments" =>
           \A i \in 1..Len(last.details) :
               last.details[i].resourceUri # << >> =>
                   ReadNow(last.details[i].resourceUri).outcome = "contents"
    /\ last.op = "search_content" =>
           \A i \in 1..Len(last.results) :
               ReadNow(last.results[i].resourceUri).outcome = "contents"

\* C32: every brief result of a search_content response carries the index
\* its hit has in the upstream list, which is stored as upstream gave it,
\* and reading its resourceUri returns the full view of that very hit,
\* although the response lists the results by descending relevance.
C32_PreviewMatchesRecord ==
    last.op = "search_content" =>
        LET h == last.puts[1].handle
        IN /\ MapHas(searchCache, h)
           /\ MapGet(searchCache, h).results = last.hits
           /\ Len(last.results) = Len(last.hits)
           /\ \A k, l \in 1..Len(last.results) :
                  k < l => last.results[k].relevance >= last.results[l].relevance
           /\ \A i \in 0..(Len(last.hits) - 1) :
                  \E k \in 1..Len(last.results) :
                      last.results[k].resultId = Tail(ResultPart) \o NumToString(i)
           /\ \A k \in 1..Len(last.results) :
                  LET r == last.results[k]
                  IN \E i \in 0..(Len(last.hits) - 1) :
                         /\ r.resultId = Tail(ResultPart) \o NumToString(i)
                         /\ r.resourceUri = CopilotUri(h, NumToString(i))
                         /\ r.url = last.hits[i + 1].webUrl
                         /\ ReadNow(r.resourceUri).outcome = "contents"
                         /\ ReadNow(r.resourceUri).text = FullView(last.hits[i + 1])
                         /\ ReadNow(r.resourceUri).text.url = r.url

\* the response of a search whose most relevant hit came last upstream
C32_Witness ==
    /\ last.op = "search_content"
    /\ Len(last.results) = 3
    /\ last.results[1].resultId = Tail(ResultPart) \o <<"2">>
    /\ last.results[1].url = Hit1.webUrl
    /\ last.hits[1] = Hit3

(***************************************************************************)
(* Claims about the retry loop of executeRequest                           *)
(***************************************************************************)
\* the failures the claim counts as retried: 429, 401 and 5xx
Retryable(status) == status = 429 \/ status = 401 \/ (status >= 500 /\ status < 600)

\* the executeRequest call that statusLog describes has ended, and the last
\* entry of chunkLog tells how
CallEnded == attempt = 0 /\ Len(statusLog) > 0 /\ Len(chunkLog) > 0

\* the call ended because the authenticator gave no token after a 401
RefreshFailed ==
    /\ chunkLog[Len(chunkLog)].outcome = "failed"
    /\ chunkLog[Len(chunkLog)].message = "AuthError"

\* C33 as stated: an executeRequest call makes at most 3 attempts; a
\* successful answer ends it and is returned; a failure other than 429, 401
\* and 5xx ends it at once with the 'request failed' GraphError; a call all
\* of whose answers are 429, 401 or 5xx makes three attempts and ends with
\* the 'Failed after 3 retries' GraphError.  Calls that end because the
\* token refresh failed are left aside.
C33_BoundedRetry ==
    /\ Len(statusLog) <= maxRetries
    /\ \A i \in 1..Len(statusLog) :
           (statusLog[i] = 200 \/ ~Retryable(statusLog[i])) =>
               i = Len(statusLog) /\ ~Retrying
    /\ (CallEnded /\ ~RefreshFailed) =>
           LET end == chunkLog[Len(chunkLog)]
               final == statusLog[Len(statusLog)]
           IN /\ final = 200 <=> end.outcome = "ok"
              /\ (final # 200 /\ ~Retryable(final)) =>
                     end.message = "GraphError: Graph API request failed"
              /\ Retryable(final) =>
                     /\ Len(statusLog) = maxRetries
                     /\ end.message = "GraphError: Failed after 3 retries"

(***************************************************************************)
(* Claims about the sweep timer                                            *)
(***************************************************************************)
Aged(entry) == now - entry.timestamp > ttlMs

Fresh(m) == SelectSeq(m, LAMBDA e : ~Aged(e.v))

NoAgedEntry ==
    /\ \A i \in 1..Len(searchCache) : ~Aged(searchCache[i].v)
    /\ \A i \in 1..Len(attachmentCache) : ~Aged(attachmentCache[i].v)

\* C34: a run of the sweep removes from both maps all and only the entries
\* with now - timestamp > ttlMs, and with the timer firing again and again
\* no entry stays in its map for ever once its age exceeds ttlMs: time and
\* again neither map holds such an entry.
C34_ActiveExpiry ==
    /\ [][last'.op = "cleanupExpired" =>
              /\ searchCache' = Fresh(searchCache)
              /\ attachmentCache' = Fresh(attachmentCache)
              /\ now' = now]_vars
    /\ []<>NoAgedEntry

\* the timer has just removed an attachment older than ttlMs
C34_Witness ==
    /\ last.op = "cleanupExpired"
    /\ last.removedAttachments > 0
    /\ now > ttlMs

(***************************************************************************)
(* Claims about the handles of attachments                                 *)
(***************************************************************************)
\* the (messageId, attachmentId) pairs of the attachments that are fetched
AttachmentPairs ==
    {[messageId |-> run.messageId, attachmentId |-> run.attachments[i].id] :
        run \in {r \in SeparatorRuns : Len(r.attachments) >= 1}, i \in {1}}
    \cup {[messageId |-> run.messageId, attachmentId |-> run.attachments[2].id] :
             run \in {r \in SeparatorRuns : Len(r.attachments) >= 2}}

\* C35 as stated: distinct (messageId, attachmentId) pairs have distinct
\* handles, so the entry found under the handle of one attachment is that
\* attachment's: neither a put for another attachment has taken its place
\* nor does getAttachment return another attachment's content.
C35_HandleInjective ==
    \A p \in AttachmentPairs :
        LET h == generateAttachmentId(p.messageId, p.attachmentId)
            r == getAttachment(attachmentCache, now, h)
        IN r.hit => /\ MapGet(attachmentCache, h).messageId = p.messageId
                    /\ r.value.id = p.attachmentId

====
